---- MODULE Spec2Model ----
(***************************************************************************)
(* A model of the GLM content generator                                    *)
(* (packages/core/src/core/glmContentGenerator.ts): the non-streaming      *)
(* response translator, the SSE record processor and the streaming         *)
(* tool-call aggregator.                                                   *)
(*                                                                         *)
(* JavaScript values are tagged records: Undefined, Null, Str(atom) for    *)
(* strings that are only compared (ids, names, finish reasons), Text(cs)   *)
(* for strings that are concatenated, cut or parsed (a sequence of         *)
(* one-character strings), Num(n) for numbers.                             *)
(***************************************************************************)
EXTENDS Integers, Sequences, FiniteSets, TLC

VARIABLES
    pc,                 \* "idle", "returned", "threw"; of the generator: "streaming",
                        \* "flushed" (the end of the data was read), "done", "closed"
                        \* (ended by the consumer)
    http,               \* the Response fetch() resolved with
    result,             \* the value generateContent returned, or NoResult
    error,              \* the message of the Error thrown, or NoError
    chunk,              \* streamFromSSE: the SSE record processSseChunk is suspended in
    at,                 \* the line of the record and the choice of its chunk to go on from
    pendingToolCalls,   \* streamFromSSE: Map<string, PendingToolCallState>, in insertion order
    responses,          \* chunkToResponses: the responses of the choice not yet yielded
    out,                \* the consumer's latest next(): unresolved, or {value, done}
    yielded,            \* the record, line and choice the latest fragment yielded comes from
    nread,              \* number of SSE records read so far
    vendor,             \* what the vendor has sent of its tool calls since the last flush
    request,            \* the GenerateContentParameters of the call
    payload,            \* toPayload: the GlmChatCompletionRequest built for the call
    posts,              \* the bodies of the POST requests fetch() was called with
    locked,             \* streamFromSSE holds the reader of the body (getReader)
    buffered,           \* streamFromSSE: complete records in the buffer, not yet cut
    streams,            \* the generators of two generateContentStream calls of one
                        \* GlmContentGenerator, each with its own locals
    options,            \* the options the GlmContentGenerator was constructed with
    cliConfig,          \* the Config of the CLI, as the web-search tool reads it
    env,                \* process.env
    searched,           \* what WebSearchToolInvocation.execute resolved with
    geminiCalls,        \* the calls of geminiClient.generateContent
    storage,            \* the entries of the HybridTokenStorage of the API keys
    keyCall,            \* the latest call of loadApiKey, saveApiKey or clearApiKey: its
                        \* arguments, the storage it found and how it settled
    authState,          \* useAuthCommand: authState
    authError,          \* useAuthCommand: authError
    apiKeyDefaultValue, \* useAuthCommand: apiKeyDefaultValue
    apiKeyAuthType,     \* useAuthCommand: apiKeyAuthType
    settings,           \* the LoadedSettings: what is merged of security.auth, and the
                        \* selectedType set in the user scope
    refreshed,          \* the auth types config.refreshAuth was called with
    consumed,           \* chunkToResponses run to its end on one chunk: the chunk, the
                        \* pending map it found and the responses it yielded
    received,           \* streamFromSSE: the bytes reader.read() has delivered so far
    undecoded,          \* the bytes the TextDecoder holds back: the start of a character
    buffer,             \* streamFromSSE: buffer
    sseChunks,          \* the records processSseChunk was called with, in order
    ended               \* reader.read() has reported done

\* the call and what it sends
sent == <<request, payload, posts>>

vars == <<pc, http, result, error, chunk, at, pendingToolCalls, responses, out, yielded,
          nread, vendor, request, payload, posts, locked, buffered, streams, options,
          cliConfig, env, searched, geminiCalls, storage, keyCall,
          authState, authError, apiKeyDefaultValue, apiKeyAuthType, settings, refreshed,
          consumed, received, undecoded, buffer, sseChunks, ended>>

\* what no step of a call changes
\* the state of useAuthCommand
auth == <<authState, authError, apiKeyDefaultValue, apiKeyAuthType, settings, refreshed>>

\* the aggregator on one chunk, and the decoder of the body on its bytes
apart == <<consumed, received, undecoded, buffer, sseChunks, ended>>

outside == <<options, cliConfig, env, searched, geminiCalls, storage, keyCall, auth, apart>>

\* the call that is followed step by step
single == <<pc, http, result, error, chunk, at, pendingToolCalls, responses, out, yielded,
            nread, vendor, request, payload, posts, locked, buffered>>

----------------------------------------------------------------------------
(* JavaScript values *)

Undefined == [t |-> "undefined"]
Null == [t |-> "null"]
Str(s) == [t |-> "string", s |-> s]
Text(cs) == [t |-> "text", cs |-> cs]
Num(n) == [t |-> "number", n |-> n]

\* v is null or undefined: the left operand of ?? and ?. falls through
Nullish(v) == v.t \in {"undefined", "null"}

\* a ?? b
Coalesce(a, b) == IF Nullish(a) THEN b ELSE a

\* the characters of a Text, "" for a value that is not one
CharsOf(v) == IF v.t = "text" THEN v.cs ELSE <<>>

RECURSIVE Concat(_)
Concat(seqs) == IF seqs = <<>> THEN <<>> ELSE Head(seqs) \o Concat(Tail(seqs))

Last(s) == s[Len(s)]

----------------------------------------------------------------------------
(* JSON.parse, on texts over the alphabet                                  *)
(*   { } [ ] : , " space, the digits 0 and 1, the letters of true, false   *)
(*   and null, and x.                                                      *)
(* The value parsed is represented by its canonical text: the input with   *)
(* the whitespace outside strings removed.  Within this alphabet (no sign, *)
(* fraction, exponent or escape) a text is accepted exactly when           *)
(* JSON.parse accepts it.                                                  *)

QUOTE == "\""
Digits == {"0", "1"}

ParseFail == [ok |-> FALSE, next |-> 0, val |-> <<>>]
ParseOk(next, val) == [ok |-> TRUE, next |-> next, val |-> val]

RECURSIVE SkipWs(_, _)
SkipWs(s, i) == IF i <= Len(s) /\ s[i] = " " THEN SkipWs(s, i + 1) ELSE i

\* the keyword lit starts at position i of s
LiteralAt(s, i, lit) ==
    /\ i + Len(lit) - 1 <= Len(s)
    /\ SubSeq(s, i, i + Len(lit) - 1) = lit

RECURSIVE DigitsEnd(_, _)
DigitsEnd(s, i) == IF i <= Len(s) /\ s[i] \in Digits THEN DigitsEnd(s, i + 1) ELSE i

\* int: "0", or a non-zero digit followed by digits
ParseNumber(s, i) ==
    IF s[i] = "0"
    THEN ParseOk(i + 1, <<"0">>)
    ELSE ParseOk(DigitsEnd(s, i), SubSeq(s, i, DigitsEnd(s, i) - 1))

RECURSIVE StringEnd(_, _)
StringEnd(s, i) == IF i > Len(s) THEN 0 ELSE IF s[i] = QUOTE THEN i ELSE StringEnd(s, i + 1)

\* s[i] is the opening quote
ParseString(s, i) ==
    LET j == StringEnd(s, i + 1)
    IN  IF j = 0 THEN ParseFail ELSE ParseOk(j + 1, SubSeq(s, i, j))

RECURSIVE ParseValue(_, _)
RECURSIVE ParseElements(_, _, _)
RECURSIVE ParseMembers(_, _, _)

\* a value starting at or after position i; next is the position after the
\* value and the whitespace that follows it
ParseValue(s, i0) ==
    LET i == SkipWs(s, i0)
    IN  IF i > Len(s) THEN ParseFail
        ELSE IF s[i] = "{" THEN
            LET j == SkipWs(s, i + 1)
            IN  IF j <= Len(s) /\ s[j] = "}"
                THEN ParseOk(SkipWs(s, j + 1), <<"{", "}">>)
                ELSE ParseMembers(s, j, <<"{">>)
        ELSE IF s[i] = "[" THEN
            LET j == SkipWs(s, i + 1)
            IN  IF j <= Len(s) /\ s[j] = "]"
                THEN ParseOk(SkipWs(s, j + 1), <<"[", "]">>)
                ELSE ParseElements(s, j, <<"[">>)
        ELSE IF s[i] = QUOTE THEN
            LET r == ParseString(s, i)
            IN  IF r.ok THEN ParseOk(SkipWs(s, r.next), r.val) ELSE ParseFail
        ELSE IF s[i] \in Digits THEN
            LET r == ParseNumber(s, i)
            IN  ParseOk(SkipWs(s, r.next), r.val)
        ELSE IF LiteralAt(s, i, <<"t", "r", "u", "e">>) THEN
            ParseOk(SkipWs(s, i + 4), <<"t", "r", "u", "e">>)
        ELSE IF LiteralAt(s, i, <<"f", "a", "l", "s", "e">>) THEN
            ParseOk(SkipWs(s, i + 5), <<"f", "a", "l", "s", "e">>)
        ELSE IF LiteralAt(s, i, <<"n", "u", "l", "l">>) THEN
            ParseOk(SkipWs(s, i + 4), <<"n", "u", "l", "l">>)
        ELSE ParseFail

\* the elements of an array after "[", acc the canonical text so far
ParseElements(s, i, acc) ==
    LET v == ParseValue(s, i)
    IN  IF ~v.ok \/ v.next > Len(s) THEN ParseFail
        ELSE IF s[v.next] = "," THEN ParseElements(s, v.next + 1, acc \o v.val \o <<",">>)
        ELSE IF s[v.next] = "]" THEN ParseOk(SkipWs(s, v.next + 1), acc \o v.val \o <<"]">>)
        ELSE ParseFail

\* the members of an object after "{", acc the canonical text so far
ParseMembers(s, i, acc) ==
    LET j == SkipWs(s, i)
    IN  IF j > Len(s) \/ s[j] # QUOTE THEN ParseFail
        ELSE
            LET k == ParseString(s, j)
                m == SkipWs(s, k.next)
                v == ParseValue(s, m + 1)
            IN  IF ~k.ok \/ m > Len(s) THEN ParseFail
                ELSE IF s[m] # ":" THEN ParseFail
                ELSE IF ~v.ok \/ v.next > Len(s) THEN ParseFail
                ELSE IF s[v.next] = ","
                    THEN ParseMembers(s, v.next + 1, acc \o k.val \o <<":">> \o v.val \o <<",">>)
                ELSE IF s[v.next] = "}"
                    THEN ParseOk(SkipWs(s, v.next + 1), acc \o k.val \o <<":">> \o v.val \o <<"}">>)
                ELSE ParseFail

\* the whole text must be one value
WholeText(r, s) ==
    IF r.ok /\ r.next = Len(s) + 1
    THEN [ok |-> TRUE, val |-> r.val]
    ELSE [ok |-> FALSE, val |-> <<>>]

\* JSON.parse(s): ok is FALSE where JSON.parse throws a SyntaxError
JsonParse(s) == WholeText(ParseValue(s, 1), s)

\* a parsed JSON value, by its canonical text
JsonValue(canon) == [t |-> "json", canon |-> canon]
\* the object {raw: s}
RawObject(s) == [t |-> "object", raw |-> Text(s)]
\* the object {}
EmptyObject == JsonValue(<<"{", "}">>)

----------------------------------------------------------------------------
(* Arrays and objects *)

Arr(a) == [t |-> "array", a |-> a]

\* x?.f for an object x with field f, given as get(x)
Opt(x, get(_)) == IF Nullish(x) THEN Undefined ELSE get(x)

GetFunction(call) == call.function
GetName(fn) == fn.name
GetArguments(fn) == fn.arguments
GetMessage(choice) == choice.message
GetDelta(choice) == choice.delta
GetContent(m) == m.content
GetReasoningContent(m) == m.reasoning_content
GetToolCalls(m) == m.tool_calls
GetFinishReason(choice) == choice.finish_reason
GetReasoningTokens(details) == details.reasoning_tokens

\* toolCall.function?.name and toolCall.function?.arguments
FunctionName(call) == Opt(call.function, GetName)
FunctionArguments(call) == Opt(call.function, GetArguments)

\* the texts of the blocks of an array content that are not empty, in order
RECURSIVE BlockTexts(_)
BlockTexts(blocks) ==
    IF blocks = <<>> THEN <<>>
    ELSE LET text == CharsOf(Coalesce(Head(blocks).text, Text(<<>>)))
         IN  (IF Len(text) > 0 THEN <<text>> ELSE <<>>) \o BlockTexts(Tail(blocks))

\* !content: undefined, null and the empty string are falsy
Falsy(content) == Nullish(content) \/ (content.t = "text" /\ content.cs = <<>>)

NormalizeContentText(content) ==
    IF Falsy(content) THEN <<>>
    ELSE IF content.t = "text" THEN content.cs
    ELSE Concat(BlockTexts(content.a))

NormalizeReasoningText(content) ==
    IF Falsy(content) THEN <<>>
    ELSE IF content.t = "text" THEN content.cs
    ELSE Concat(BlockTexts(content.a))

\* usage.reasoning_tokens || usage.completion_tokens_details?.reasoning_tokens
ToUsageMetadataOr(usage) ==
    IF Nullish(usage) THEN Undefined
    ELSE LET reasoningTokens ==
                 IF Nullish(usage.reasoning_tokens) \/ usage.reasoning_tokens = Num(0)
                 THEN Opt(usage.completion_tokens_details, GetReasoningTokens)
                 ELSE usage.reasoning_tokens
         IN  [t |-> "object",
              promptTokenCount |-> usage.prompt_tokens,
              candidatesTokenCount |-> usage.completion_tokens,
              totalTokenCount |-> usage.total_tokens,
              thoughtsTokenCount |->
                  IF reasoningTokens # Undefined THEN reasoningTokens ELSE Undefined]

ToUsageMetadata(usage) ==
    IF Nullish(usage) THEN Undefined
    ELSE LET reasoningTokens ==
                 Coalesce(usage.reasoning_tokens,
                          Opt(usage.completion_tokens_details, GetReasoningTokens))
         IN  [t |-> "object",
              promptTokenCount |-> usage.prompt_tokens,
              candidatesTokenCount |-> usage.completion_tokens,
              totalTokenCount |-> usage.total_tokens,
              thoughtsTokenCount |->
                  IF reasoningTokens # Undefined THEN reasoningTokens ELSE Undefined]

\* the table without its tool_calls row
ConvertFinishReasonNoToolCalls(reason) ==
    IF reason = Str("stop") THEN Str("STOP")
    ELSE IF reason = Str("length") THEN Str("MAX_TOKENS")
    ELSE IF reason = Str("content_filter") THEN Str("SAFETY")
    ELSE Undefined

ConvertFinishReason(reason) ==
    IF reason = Str("stop") THEN Str("STOP")
    ELSE IF reason = Str("length") THEN Str("MAX_TOKENS")
    ELSE IF reason = Str("content_filter") THEN Str("SAFETY")
    ELSE IF reason = Str("tool_calls") THEN Str("STOP")
    ELSE Undefined

\* catch { return {} }
ParsedOrEmpty(parsed, cs) == IF parsed.ok THEN JsonValue(parsed.val) ELSE JsonValue(<<"{", "}">>)

\* try { return JSON.parse(argumentString) } catch { return {raw: argumentString} }
ParsedOrRaw(parsed, cs) == IF parsed.ok THEN JsonValue(parsed.val) ELSE RawObject(cs)

\* argumentString is undefined or a Text
ParseArguments(argumentString) ==
    IF Nullish(argumentString) \/ CharsOf(argumentString) = <<>> THEN EmptyObject
    ELSE ParsedOrRaw(JsonParse(argumentString.cs), argumentString.cs)

----------------------------------------------------------------------------
(* The canonical response *)

TextPart(cs) == [text |-> Text(cs)]
ThoughtPart(cs) == [text |-> Text(cs), thought |-> TRUE]
FunctionCallPart(fc) == [functionCall |-> fc]

IsFunctionCallPart(part) == "functionCall" \in DOMAIN part

Candidate(parts, finishReason) ==
    [content |-> [role |-> "model", parts |-> parts], finishReason |-> finishReason]

\* createResponse: the fields a call site does not set are undefined
CreateResponse(responseId, modelVersion, candidates, usageMetadata, functionCalls) ==
    [responseId |-> responseId,
     modelVersion |-> modelVersion,
     candidates |-> candidates,
     usageMetadata |-> usageMetadata,
     functionCalls |-> functionCalls]

\* the elements f(s[1]), ..., f(s[n])
Map(s, f(_)) == [i \in 1..Len(s) |-> f(s[i])]

PartFunctionCall(part) == part.functionCall

\* toolCall => ({functionCall: {id, name, args}})
ToolCallToPart(toolCall) ==
    FunctionCallPart([id |-> toolCall.id,
                      name |-> FunctionName(toolCall),
                      args |-> ParseArguments(FunctionArguments(toolCall))])

\* the first function call only
FunctionCallsOfFirst(functionCalls) ==
    Arr(IF functionCalls = <<>> THEN <<>> ELSE <<PartFunctionCall(functionCalls[1])>>)

\* functionCalls.map((part) => part.functionCall)
FunctionCallsOf(functionCalls) == Arr(Map(functionCalls, PartFunctionCall))

\* the text pushed before the thought
ResponsePartsTextFirst(reasoningText, messageText, functionCalls) ==
    (IF Len(messageText) > 0 THEN <<TextPart(messageText)>> ELSE <<>>)
    \o (IF Len(reasoningText) > 0 THEN <<ThoughtPart(reasoningText)>> ELSE <<>>)
    \o functionCalls

\* the parts of the candidate: the thought, the text, the function calls
ResponseParts(reasoningText, messageText, functionCalls) ==
    (IF Len(reasoningText) > 0 THEN <<ThoughtPart(reasoningText)>> ELSE <<>>)
    \o (IF Len(messageText) > 0 THEN <<TextPart(messageText)>> ELSE <<>>)
    \o functionCalls

\* the response built from the first choice, its message and its function calls
BuildResponse(response, choice, message, functionCalls) ==
    CreateResponse(response.id, response.model,
                   <<Candidate(ResponseParts(
                                   NormalizeReasoningText(Opt(message, GetReasoningContent)),
                                   NormalizeContentText(Opt(message, GetContent)),
                                   functionCalls),
                               ConvertFinishReason(Opt(choice, GetFinishReason)))>>,
                   ToUsageMetadata(response.usage),
                   FunctionCallsOf(functionCalls))

\* choice?.message?.tool_calls ?? [], each mapped to a function-call part
MessageFunctionCalls(message) ==
    Map(Coalesce(Opt(message, GetToolCalls), Arr(<<>>)).a, ToolCallToPart)

FirstChoice(response) ==
    IF ~Nullish(response.choices) /\ Len(response.choices.a) > 0
    THEN response.choices.a[1]
    ELSE Undefined

ResponseOfChoice(response, choice) ==
    BuildResponse(response, choice, Opt(choice, GetMessage),
                  MessageFunctionCalls(Opt(choice, GetMessage)))

ToGenerateContentResponse(response) == ResponseOfChoice(response, FirstChoice(response))

----------------------------------------------------------------------------
(* The stream aggregator.  pendingToolCalls is a Map in insertion order:   *)
(* a sequence of entries {id, name, args}, at most one per id, the id      *)
(* being the key.                                                          *)

MapHas(map, key) == \E i \in 1..Len(map) : map[i].id = key
MapGet(map, key) == map[CHOOSE i \in 1..Len(map) : map[i].id = key]
\* Map.set: an existing key keeps its position, a new one goes last
MapSet(map, key, entry) ==
    IF MapHas(map, key)
    THEN [i \in 1..Len(map) |-> IF map[i].id = key THEN entry ELSE map[i]]
    ELSE Append(map, entry)

\* the body of the loop with the name always taken from the delta
AccumulateToolCallRenamed(pending, call) ==
    LET id == Coalesce(call.id, Coalesce(FunctionName(call), Str("tool")))
        existing == IF MapHas(pending, id)
                    THEN MapGet(pending, id)
                    ELSE [id |-> id,
                          name |-> Coalesce(FunctionName(call), Str("tool")),
                          args |-> <<>>]
        updated == [id |-> existing.id,
                    name |-> Coalesce(FunctionName(call), Str("tool")),
                    args |-> existing.args
                             \o CharsOf(Coalesce(FunctionArguments(call), Text(<<>>)))]
    IN  MapSet(pending, id, updated)

\* the body of the loop over choice.delta.tool_calls
AccumulateToolCall(pending, call) ==
    LET id == Coalesce(call.id, Coalesce(FunctionName(call), Str("tool")))
        existing == IF MapHas(pending, id)
                    THEN MapGet(pending, id)
                    ELSE [id |-> id,
                          name |-> Coalesce(FunctionName(call), Str("tool")),
                          args |-> <<>>]
        updated == [id |-> existing.id,
                    name |-> Coalesce(FunctionName(call), existing.name),
                    args |-> existing.args
                             \o CharsOf(Coalesce(FunctionArguments(call), Text(<<>>)))]
    IN  MapSet(pending, id, updated)

RECURSIVE AccumulateToolCalls(_, _)
AccumulateToolCalls(pending, calls) ==
    IF calls = <<>> THEN pending
    ELSE AccumulateToolCalls(AccumulateToolCall(pending, Head(calls)), Tail(calls))

\* ({id, name, args}) => ({functionCall: {id, name, args: parseArguments(args)}})
PendingToPart(entry) ==
    FunctionCallPart([id |-> entry.id,
                      name |-> entry.name,
                      args |-> ParseArguments(Text(entry.args))])

\* the parts of the content fragment: the reasoning delta, the text delta
DeltaParts(reasoningDelta, textDelta) ==
    (IF Len(reasoningDelta) > 0 THEN <<ThoughtPart(reasoningDelta)>> ELSE <<>>)
    \o (IF Len(textDelta) > 0 THEN <<TextPart(textDelta)>> ELSE <<>>)

ChoiceParts(choice) ==
    DeltaParts(NormalizeReasoningText(Opt(choice.delta, GetReasoningContent)),
               NormalizeContentText(Opt(choice.delta, GetContent)))

\* the map after the tool-call deltas of the choice
ChoiceAccumulated(choice, pending) ==
    IF Nullish(Opt(choice.delta, GetToolCalls)) THEN pending
    ELSE AccumulateToolCalls(pending, choice.delta.tool_calls.a)

\* a fragment of the chunk sseJson
Fragment(sseJson, model, parts, finishReason, functionCalls) ==
    CreateResponse(sseJson.id, Coalesce(sseJson.model, model),
                   <<Candidate(parts, finishReason)>>,
                   ToUsageMetadata(sseJson.usage), functionCalls)

\* the fragment with the reasoning and the text, if there is any
ContentResponses(sseJson, model, parts, finishReason) ==
    IF Len(parts) > 0
    THEN <<Fragment(sseJson, model, parts, finishReason, Undefined)>>
    ELSE <<>>

\* the fragment that completes the pending tool calls
FlushResponse(sseJson, model, functionCalls, finishReason) ==
    Fragment(sseJson, model, functionCalls, finishReason, FunctionCallsOf(functionCalls))

\* the finish-only fragment under `if` in place of `else if`
AfterContentBoth(sseJson, model, parts, accumulated, finishReason) ==
    [responses |->
        (IF finishReason \in {Str("STOP"), Str("MAX_TOKENS")} /\ Len(accumulated) > 0
         THEN <<FlushResponse(sseJson, model, Map(accumulated, PendingToPart),
                              finishReason)>>
         ELSE <<>>)
        \o (IF Len(parts) = 0 /\ finishReason # Undefined
            THEN <<Fragment(sseJson, model, <<>>, finishReason, Undefined)>>
            ELSE <<>>),
     pending |->
        IF finishReason \in {Str("STOP"), Str("MAX_TOKENS")} /\ Len(accumulated) > 0
        THEN <<>> ELSE accumulated]

\* no fragment for a finish reason alone
AfterContentNoFinishOnly(sseJson, model, parts, accumulated, finishReason) ==
    IF finishReason \in {Str("STOP"), Str("MAX_TOKENS")} /\ Len(accumulated) > 0
    THEN [responses |-> <<FlushResponse(sseJson, model, Map(accumulated, PendingToPart),
                                        finishReason)>>,
          pending |-> <<>>]
    ELSE [responses |-> <<>>, pending |-> accumulated]

\* the pending calls completed under the finish reason STOP only
AfterContentStopOnly(sseJson, model, parts, accumulated, finishReason) ==
    IF finishReason = Str("STOP") /\ Len(accumulated) > 0
    THEN [responses |-> <<FlushResponse(sseJson, model, Map(accumulated, PendingToPart),
                                        finishReason)>>,
          pending |-> <<>>]
    ELSE IF Len(parts) = 0 /\ finishReason # Undefined
    THEN [responses |-> <<Fragment(sseJson, model, <<>>, finishReason, Undefined)>>,
          pending |-> accumulated]
    ELSE [responses |-> <<>>, pending |-> accumulated]

\* what follows the content fragment, and the map after the choice
AfterContent(sseJson, model, parts, accumulated, finishReason) ==
    IF finishReason \in {Str("STOP"), Str("MAX_TOKENS")} /\ Len(accumulated) > 0
    THEN [responses |-> <<FlushResponse(sseJson, model, Map(accumulated, PendingToPart),
                                        finishReason)>>,
          pending |-> <<>>]
    ELSE IF Len(parts) = 0 /\ finishReason # Undefined
    THEN [responses |-> <<Fragment(sseJson, model, <<>>, finishReason, Undefined)>>,
          pending |-> accumulated]
    ELSE [responses |-> <<>>, pending |-> accumulated]

\* the tool-call-completion fragment pushed first
ResponsesFlushFirst(content, after) ==
    [responses |-> after.responses \o content, pending |-> after.pending]

\* the responses array of one choice in the order it is filled: the content
\* fragment first
ResponsesInOrder(content, after) ==
    [responses |-> content \o after.responses, pending |-> after.pending]

ChoiceResponses(sseJson, model, parts, accumulated, finishReason) ==
    ResponsesInOrder(ContentResponses(sseJson, model, parts, finishReason),
                     AfterContent(sseJson, model, parts, accumulated, finishReason))

\* the responses array of one choice, and the map after it
ChoiceToResponses(sseJson, model, choice, pending) ==
    ChoiceResponses(sseJson, model, ChoiceParts(choice), ChoiceAccumulated(choice, pending),
                    ConvertFinishReason(choice.finish_reason))

RECURSIVE ChoicesToResponses(_, _, _, _, _)

\* for (const resp of responses) yield resp: the generator is suspended in its
\* j-th choice once that choice has a response, each kept with the index of its
\* choice; a choice without responses is followed by the next one
ChoiceThenRest(one, sseJson, model, choices, j) ==
    LET tag(r) == [value |-> r, choice |-> j]
    IN  IF one.responses # <<>>
        THEN [responses |-> Map(one.responses, tag), pending |-> one.pending,
              choice |-> j + 1]
        ELSE ChoicesToResponses(sseJson, model, choices, j + 1, one.pending)

\* for (const choice of chunk.choices ?? []), from the j-th choice on, up to the
\* next yield or the end of the loop; choice is where the loop goes on from
ChoicesToResponses(sseJson, model, choices, j, pending) ==
    IF j > Len(choices) THEN [responses |-> <<>>, pending |-> pending, choice |-> j]
    ELSE ChoiceThenRest(ChoiceToResponses(sseJson, model, choices[j], pending),
                        sseJson, model, choices, j)

\* chunkToResponses, a generator, from its j-th choice on
ChunkToResponses(sseJson, j, model, pending) ==
    ChoicesToResponses(sseJson, model, Coalesce(sseJson.choices, Arr(<<>>)).a, j, pending)

----------------------------------------------------------------------------
(* The SSE record processor.  A record is the sequence of its lines.  A    *)
(* line is either RawLine(cs), its characters, or ChunkLine(json), which   *)
(* stands for the line "data: " followed by a well-formed JSON document    *)
(* whose parsed value is the chunk object json.                            *)

NoError == Undefined
NoResult == Undefined

RawLine(cs) == [t |-> "text", cs |-> cs]
ChunkLine(json) == [t |-> "chunk", json |-> json]

DATA == <<"d", "a", "t", "a", ":">>
DONE == <<"[", "D", "O", "N", "E", "]">>

RECURSIVE TrimStart(_)
TrimStart(cs) == IF cs # <<>> /\ Head(cs) = " " THEN TrimStart(Tail(cs)) ELSE cs
RECURSIVE TrimEnd(_)
TrimEnd(cs) == IF cs # <<>> /\ Last(cs) = " " THEN TrimEnd(SubSeq(cs, 1, Len(cs) - 1)) ELSE cs
Trim(cs) == TrimEnd(TrimStart(cs))

StartsWith(cs, prefix) == Len(cs) >= Len(prefix) /\ SubSeq(cs, 1, Len(prefix)) = prefix

\* what one line contributes when nothing is thrown, or what was thrown is caught
Caught(r) ==
    [responses |-> r.responses, pending |-> r.pending, choice |-> r.choice,
     error |-> NoError]
Skipped(pending) == [responses |-> <<>>, pending |-> pending, choice |-> 1, error |-> NoError]

SyntaxError == [t |-> "error", message |-> "SyntaxError"]
TypeError == [t |-> "error", message |-> "TypeError"]

\* what is thrown inside the try block for a payload that is not a chunk object:
\* JSON.parse(data) throws on malformed JSON, and chunk.choices throws on null
Thrown(parsed) ==
    IF ~parsed.ok THEN SyntaxError
    ELSE IF parsed.val = <<"n", "u", "l", "l">> THEN TypeError
    ELSE NoError

\* without the catch clause the error leaves the line
Rethrow(e) == e

\* catch (error) { debugLogger.warn(...) }: the error does not leave the line
CatchError(e) == NoError

TryParse(parsed, pending) ==
    [responses |-> <<>>, pending |-> pending, choice |-> 1,
     error |-> CatchError(Thrown(parsed))]

\* [DONE] leaves the loop over the lines and the generator with it
DataToResponsesDoneEnds(data, pending) ==
    IF data = <<>> THEN Skipped(pending)
    ELSE IF data = DONE
    THEN [responses |-> <<>>, pending |-> pending, choice |-> 1, error |-> SyntaxError]
    ELSE TryParse(JsonParse(data), pending)

\* the payload of a data line after the prefix
DataToResponses(data, pending) ==
    IF data = <<>> \/ data = DONE THEN Skipped(pending)
    ELSE TryParse(JsonParse(data), pending)

TrimmedToResponses(trimmed, pending) ==
    IF ~StartsWith(trimmed, DATA) THEN Skipped(pending)
    ELSE DataToResponses(Trim(SubSeq(trimmed, Len(DATA) + 1, Len(trimmed))), pending)

\* the body of the loop over the lines, for a line whose chunk is at its j-th
\* choice
LineToResponses(line, j, model, pending) ==
    IF line.t = "chunk"
    THEN Caught(ChunkToResponses(line.json, j, model, pending))
    ELSE TrimmedToResponses(Trim(line.cs), pending)

RECURSIVE LinesToResponses(_, _, _, _, _)

\* yield*: the generator is suspended in its i-th line once that line has a
\* response, each kept with the index of its line; a line without responses is
\* followed by the next one.  An error leaving a line ends the loop.
LineThenRest(one, lines, i, model) ==
    LET tag(r) == [value |-> r.value, choice |-> r.choice, line |-> i]
    IN  IF one.error # NoError \/ one.responses # <<>>
        THEN [responses |-> Map(one.responses, tag), pending |-> one.pending,
              line |-> i, choice |-> one.choice, error |-> one.error]
        ELSE LinesToResponses(lines, i + 1, 1, model, one.pending)

\* for (const line of lines), from the j-th choice of the i-th line on, up to the
\* next yield or the end of the loop; line and choice are where the loop goes on
\* from
LinesToResponses(lines, i, j, model, pending) ==
    IF i > Len(lines)
    THEN [responses |-> <<>>, pending |-> pending, line |-> i, choice |-> 1,
          error |-> NoError]
    ELSE LineThenRest(LineToResponses(lines[i], j, model, pending), lines, i, model)

\* processSseChunk, a generator, from the j-th choice of its i-th line on
ProcessSseChunk(sseChunk, i, j, model, pending) ==
    LinesToResponses(sseChunk, i, j, model, pending)

----------------------------------------------------------------------------
(* What the vendor may send *)

\* a generator reads at most MaxRecords SSE records
MaxRecords == 3

Hi == <<"H", "i">>
Thinking == <<"t", "h">>

Block(type, text) == [type |-> type, text |-> text]
HiBlocks ==
    Arr(<<Block("text", Text(<<"H">>)), Block("image", Undefined),
          Block("text", Text(<<>>)), Block("text", Text(<<"i">>))>>)

\* message.content and delta.content
Contents == {Undefined, Null, Text(<<>>), Text(Hi), HiBlocks}
\* message.reasoning_content and delta.reasoning_content
Reasonings == {Undefined, Text(Thinking), Arr(<<Block("text", Text(Thinking))>>)}

\* finish_reason: absent, null, the four mapped values and one that is not mapped
FinishReasons ==
    {Undefined, Null, Str("stop"), Str("length"), Str("content_filter"),
     Str("tool_calls"), Str("sensitive")}

Usage(prompt, completion, total, reasoning, details) ==
    [t |-> "object", prompt_tokens |-> prompt, completion_tokens |-> completion,
     total_tokens |-> total, reasoning_tokens |-> reasoning,
     completion_tokens_details |-> details]
Details(reasoning) == [t |-> "object", reasoning_tokens |-> reasoning]

TokenCounts ==
    {<<Undefined, Undefined, Undefined>>, <<Num(10), Num(5), Num(15)>>,
     <<Num(0), Num(0), Num(0)>>}
Usages ==
    {Undefined, Null} \cup
    {Usage(c[1], c[2], c[3], flat, details) :
        c \in TokenCounts,
        flat \in {Undefined, Num(0), Num(3)},
        details \in {Undefined, Details(Undefined), Details(Num(0)), Details(Num(2))}}

\* argument strings: "", {}, {"x":1}, [1] , a blank, and two that are cut short
ArgEmpty == <<>>
ArgObject == <<"{", "}">>
ArgX1 == <<"{", QUOTE, "x", QUOTE, ":", "1", "}">>
ArgArray == <<"[", "1", "]">>
ArgBlank == <<" ">>
ArgCutShort == <<"{", QUOTE, "x", QUOTE, ":">>
ArgBrace == <<"{", "x">>
ArgStrings == {ArgEmpty, ArgObject, ArgX1, ArgArray, ArgBlank, ArgCutShort, ArgBrace}

ToolCall(id, name, arguments) ==
    [t |-> "object", id |-> id,
     function |-> [t |-> "object", name |-> name, arguments |-> arguments]]

\* message.tool_calls of a non-streaming response
MessageToolCalls ==
    {Undefined, Arr(<<>>),
     Arr(<<[t |-> "object", id |-> Undefined, function |-> Undefined]>>),
     Arr(<<ToolCall(Str("call_1"), Str("do_work"), Undefined)>>),
     Arr(<<ToolCall(Str("call_1"), Str("plan"), Text(ArgX1)),
           ToolCall(Str("call_2"), Str("do_work"), Text(ArgCutShort))>>),
     Arr(<<ToolCall(Undefined, Str("plan"), Text(ArgBrace)),
           ToolCall(Str("call_2"), Undefined, Text(ArgObject))>>)}
    \cup {Arr(<<ToolCall(Str("call_1"), Str("do_work"), Text(a))>>) : a \in ArgStrings}

Message(content, reasoning, toolCalls) ==
    [t |-> "object", role |-> "assistant", content |-> content,
     reasoning_content |-> reasoning, tool_calls |-> toolCalls]

Messages ==
    {Undefined} \cup
    {Message(c, r, tc) : c \in Contents, r \in Reasonings, tc \in MessageToolCalls}

Choice(message, finishReason) ==
    [t |-> "object", index |-> 0, message |-> message, finish_reason |-> finishReason]

\* the bodies of a non-streaming 2xx response
ChatCompletionResponse(choices, usage) ==
    [t |-> "object", id |-> Str("resp-1"), model |-> Str("glm-4.7"),
     choices |-> choices, usage |-> usage]

ChatCompletionResponses ==
    {ChatCompletionResponse(choices, usage) :
        choices \in {Undefined, Null, Arr(<<>>)}, usage \in {Undefined, Usage(Num(10), Num(5), Num(15), Undefined, Undefined)}}
    \cup
    {ChatCompletionResponse(Arr(<<Choice(m, fr)>>), Undefined) :
        m \in Messages, fr \in FinishReasons}
    \cup
    {ChatCompletionResponse(Arr(<<Choice(Message(Text(Hi), Undefined, Undefined), Str("stop"))>>), u) :
        u \in Usages}

\* what fetch() resolves with
OkResponse(data) == [ok |-> TRUE, status |-> 200, json |-> data, body |-> Str("stream")]
FailedResponse(text, statusText, body) ==
    [ok |-> FALSE, status |-> 429, statusText |-> statusText, text |-> text, body |-> body]
\* response.text() resolves with a Text or rejects
Rejects == [t |-> "rejects"]
\* the reason phrase of the status line; HTTP/2 has none
StatusTexts == {Text(<<"T", "M", "R">>), Text(<<>>)}
FailedResponses ==
    {FailedResponse(text, statusText, body) :
        text \in {Text(<<"n", "o">>), Text(<<>>), Rejects},
        statusText \in StatusTexts,
        body \in {Str("stream"), Null}}

\* a 2xx streaming response has a body or none
StreamResponses == {[ok |-> TRUE, status |-> 200, json |-> Undefined, body |-> b] :
                        b \in {Str("stream"), Null}}

\* fetch() resolves with a Response or rejects (no connection, abort)
FetchRejects == [t |-> "fetch rejects"]


----------------------------------------------------------------------------
(* The chunks of a stream *)

SseJson(choices, usage, model) ==
    [t |-> "object", id |-> Str("chunk"), model |-> model, choices |-> choices,
     usage |-> usage]
ChunkChoice(delta, finishReason) ==
    [t |-> "object", index |-> 0, delta |-> delta, finish_reason |-> finishReason]
Delta(content, reasoning, toolCalls) ==
    [t |-> "object", content |-> content, reasoning_content |-> reasoning,
     tool_calls |-> toolCalls]

StreamUsage == Usage(Num(10), Num(5), Num(15), Undefined, Details(Num(2)))

\* a chunk with two choices
TwoChoices ==
    SseJson(Arr(<<ChunkChoice(Delta(Text(Hi), Undefined, Undefined), Null),
                  ChunkChoice(Delta(Undefined, Text(Thinking), Undefined), Str("stop"))>>),
            Undefined, Str("glm-4.7"))

\* chunks without tool calls
ContentChunks ==
    {SseJson(Arr(<<ChunkChoice(Delta(c, r, Undefined), fr)>>), Undefined, Str("glm-4.7")) :
        c \in {Undefined, Text(Hi), HiBlocks}, r \in {Undefined, Text(Thinking)},
        fr \in FinishReasons}
    \cup {SseJson(Arr(<<ChunkChoice(Delta(c, Undefined, Undefined), fr)>>), StreamUsage,
                  Str("glm-4.7")) :
        c \in {Undefined, Text(Hi)}, fr \in {Null, Str("stop")}}
    \cup {SseJson(Arr(<<ChunkChoice(Undefined, fr)>>), Undefined, Undefined) :
        fr \in FinishReasons}
    \cup {SseJson(choices, StreamUsage, Undefined) : choices \in {Undefined, Arr(<<>>)}}
    \cup {TwoChoices}

\* the vendor's tool calls: the n-th is named CallNames[n] and has the id
\* CallIds[n], or no id
CallIds == <<Str("call_1"), Str("call_2")>>
CallNames == <<Str("plan"), Str("do_work")>>
StreamArgStrings == {ArgObject, ArgArray, ArgBrace}

\* the vendor's calls not flushed yet
OpenCalls(v) == IF v.flushed THEN <<>> ELSE v.calls
Complete(call) == call.sent = Len(call.args)
AllComplete(calls) == \A i \in 1..Len(calls) : Complete(calls[i])

\* the first delta of the first call: its id (or none), its name and the first k
\* characters of its arguments
FirstCallMoves ==
    UNION {
        {[deltas |-> <<ToolCall(id, CallNames[1], Text(SubSeq(a, 1, k)))>>,
          calls |-> <<[id |-> id, name |-> CallNames[1], args |-> a, sent |-> k]>>] :
            id \in {CallIds[1], Undefined}, k \in 0..Len(a)} :
        a \in StreamArgStrings}

\* a later call, sent whole in one delta
NextCallMoves(base) ==
    LET n == Len(base) + 1
    IN  {[deltas |-> <<ToolCall(CallIds[n], CallNames[n], Text(ArgObject))>>,
          calls |-> Append(base, [id |-> CallIds[n], name |-> CallNames[n],
                                  args |-> ArgObject, sent |-> Len(ArgObject)])]}

\* the vendor starts a call once the calls before it are complete
StartMoves(v) ==
    LET base == OpenCalls(v)
    IN  IF Len(base) >= Len(CallNames) \/ ~AllComplete(base) THEN {}
        ELSE IF base = <<>> THEN FirstCallMoves
        ELSE NextCallMoves(base)

\* a continuation delta of the call in progress: the next k characters of its
\* arguments, with or without its id, with or without its name
ContinueMoves(v) ==
    LET base == OpenCalls(v)
        n == Len(base)
    IN  IF n > 0 /\ ~AllComplete(base)
        THEN {[deltas |-> <<ToolCall(IF withId THEN base[n].id ELSE Undefined,
                                     IF withName THEN base[n].name ELSE Undefined,
                                     Text(SubSeq(base[n].args, base[n].sent + 1,
                                                 base[n].sent + k)))>>,
               calls |-> [base EXCEPT ![n].sent = @ + k]] :
                withId \in BOOLEAN, withName \in BOOLEAN,
                k \in 1..(Len(base[n].args) - base[n].sent)}
        ELSE {}

\* a terminal finish reason ends the vendor's message
Terminal(finishReason) == finishReason \in {Str("stop"), Str("length"), Str("tool_calls")}

\* a chunk line, and what the vendor has sent after it
ChunkMoves(v) ==
    {[line |-> ChunkLine(json),
      vendor |-> [calls |-> OpenCalls(v),
                  flushed |-> /\ json.choices # Undefined
                              /\ \E k \in 1..Len(json.choices.a) :
                                    Terminal(json.choices.a[k].finish_reason)]] :
        json \in ContentChunks}
    \cup
    {[line |-> ChunkLine(SseJson(Arr(<<ChunkChoice(Delta(c, Undefined, Arr(m.deltas)), fr)>>),
                                 Undefined, Str("glm-4.7"))),
      vendor |-> [calls |-> m.calls, flushed |-> Terminal(fr)]] :
        m \in StartMoves(v) \cup ContinueMoves(v),
        c \in {Undefined},
        fr \in {Null, Str("stop"), Str("length"), Str("content_filter"), Str("sensitive")}}
    \cup
    {[line |-> ChunkLine(SseJson(Arr(<<ChunkChoice(Delta(Text(Hi), Text(Thinking),
                                                         Arr(m.deltas)), fr)>>),
                                 StreamUsage, Undefined)),
      vendor |-> [calls |-> m.calls, flushed |-> Terminal(fr)]] :
        m \in StartMoves(v) \cup ContinueMoves(v),
        fr \in {Null, Str("tool_calls")}}

\* lines that carry no chunk: [DONE], an empty payload, a comment, an event
\* field, a payload that is cut short, the JSON null, a padded [DONE]
RawLines ==
    {RawLine(DATA \o <<" ">> \o DONE),
     RawLine(DATA),
     RawLine(<<":", " ", "x">>),
     RawLine(<<>>),
     RawLine(DATA \o <<" ", "{", QUOTE, "x">>),
     RawLine(DATA \o <<"n", "u", "l", "l">>),
     RawLine(<<" ">> \o DATA \o <<" ", " ">> \o DONE \o <<" ">>)}

HiChunk == SseJson(Arr(<<ChunkChoice(Delta(Text(Hi), Undefined, Undefined), Null)>>),
                   Undefined, Str("glm-4.7"))
StopChunk == SseJson(Arr(<<ChunkChoice(Delta(Undefined, Undefined, Undefined), Str("stop"))>>),
                     Undefined, Str("glm-4.7"))

\* an SSE record, and what the vendor has sent after it: one chunk line, one raw
\* line, or two lines
RecordMoves(v) ==
    {[record |-> <<m.line>>, vendor |-> m.vendor] : m \in ChunkMoves(v)}
    \cup {[record |-> <<raw>>, vendor |-> v] : raw \in RawLines}
    \cup {[record |-> <<raw, ChunkLine(HiChunk)>>,
           vendor |-> [calls |-> OpenCalls(v), flushed |-> FALSE]] : raw \in RawLines}
    \cup {[record |-> <<ChunkLine(HiChunk), raw>>,
           vendor |-> [calls |-> OpenCalls(v), flushed |-> FALSE]] : raw \in RawLines}
    \cup {[record |-> <<ChunkLine(HiChunk), ChunkLine(StopChunk)>>,
           vendor |-> [calls |-> OpenCalls(v), flushed |-> TRUE]]}

----------------------------------------------------------------------------
(* The request: from canonical turns to vendor messages *)

Bool(b) == [t |-> "boolean", b |-> b]

\* the value is truthy: if (v), v || w, Boolean(v)
Truthy(v) ==
    CASE v.t \in {"undefined", "null"} -> FALSE
      [] v.t = "text" -> v.cs # <<>>
      [] v.t = "boolean" -> v.b
      [] v.t = "number" -> v.n # 0
      [] OTHER -> TRUE

\* a || b
Or(a, b) == IF Truthy(a) THEN a ELSE b

NL == "\n"

RECURSIVE Join(_, _)
\* strings.join(sep)
Join(strings, sep) ==
    IF strings = <<>> THEN <<>>
    ELSE IF Len(strings) = 1 THEN strings[1]
    ELSE strings[1] \o sep \o Join(Tail(strings), sep)

\* a Part and a Content of @google/genai: every field is optional
Part(thought, text, functionCall, functionResponse, inlineData, fileData) ==
    [t |-> "object", thought |-> thought, text |-> text, functionCall |-> functionCall,
     functionResponse |-> functionResponse, inlineData |-> inlineData,
     fileData |-> fileData]
Content(role, parts) == [t |-> "object", role |-> role, parts |-> parts]
FunctionCall(id, name, args) == [t |-> "object", id |-> id, name |-> name, args |-> args]
FunctionResponse(id, name, response) ==
    [t |-> "object", id |-> id, name |-> name, response |-> response]
Blob(mimeType) == [t |-> "object", mimeType |-> mimeType]

\* an object that refers to itself: JSON.stringify throws a TypeError
Circular == [t |-> "circular"]

\* the characters of a JSON string literal: quotes and backslashes are escaped
RECURSIVE Escaped(_)
Escaped(cs) ==
    IF cs = <<>> THEN <<>>
    ELSE (IF Head(cs) \in {QUOTE, "\\"} THEN <<"\\", Head(cs)>> ELSE <<Head(cs)>>)
         \o Escaped(Tail(cs))

\* JSON.stringify(value) of a JSON value, of {raw: string} and of a string
JsonStringify(value) ==
    CASE value.t = "json" -> value.canon
      [] value.t = "object" ->
            <<"{", QUOTE, "r", "a", "w", QUOTE, ":", QUOTE>> \o Escaped(value.raw.cs)
            \o <<QUOTE, "}">>
      [] value.t = "text" -> <<QUOTE>> \o Escaped(value.cs) \o <<QUOTE>>

\* String(value) of an object
ObjectObject ==
    <<"[", "o", "b", "j", "e", "c", "t", " ", "O", "b", "j", "e", "c", "t", "]">>

\* try { return JSON.stringify(value) } catch { return String(value) }
SafeJsonStringify(value) ==
    Text(IF value = Circular THEN ObjectObject ELSE JsonStringify(value))

\* a GlmMessage: the fields a message does not have are undefined
GlmMessage(role, content, reasoning, toolCalls, name, toolCallId) ==
    [role |-> role, content |-> content, reasoning_content |-> reasoning,
     tool_calls |-> toolCalls, name |-> name, tool_call_id |-> toolCallId]

\* tool_call_id without the id of the function response
ToolCallIdByName(functionResponse) == Coalesce(functionResponse.name, Str("tool"))

\* part.functionResponse.id ?? part.functionResponse.name ?? 'tool'
ToolCallId(functionResponse) ==
    Coalesce(Coalesce(functionResponse.id, functionResponse.name), Str("tool"))

\* the message pushed for a function response in a user turn
ToolMessage(functionResponse) ==
    GlmMessage("tool",
               SafeJsonStringify(Coalesce(functionResponse.response, EmptyObject)),
               Undefined, Undefined, functionResponse.name, ToolCallId(functionResponse))

\* the GlmToolCall pushed for a function call in a model turn
AssistantToolCall(functionCall) ==
    [id |-> functionCall.id, type |-> "function",
     function |-> [name |-> functionCall.name,
                   arguments |-> SafeJsonStringify(Coalesce(functionCall.args,
                                                            EmptyObject))]]

GetMimeType(data) == data.mimeType

\* `[Attachment omitted${description ? `: ${description}` : ''}]`
AttachmentOmitted(description) ==
    <<"[", "A", "t", "t", "a", "c", "h", "m", "e", "n", "t", " ",
      "o", "m", "i", "t", "t", "e", "d">>
    \o (IF Truthy(description) THEN <<":", " ">> \o description.cs ELSE <<>>)
    \o <<"]">>

\* convertContent: what its loop has collected
NoParts ==
    [messages |-> <<>>, textParts |-> <<>>, reasoningParts |-> <<>>, toolCalls |-> <<>>]

\* the body of the loop over content.parts
ConvertPart(part, role, acc) ==
    IF Truthy(part.thought)
    THEN IF Truthy(part.text)
         THEN [acc EXCEPT !.reasoningParts = Append(@, part.text.cs)]
         ELSE acc
    ELSE IF Truthy(part.text)
    THEN [acc EXCEPT !.textParts = Append(@, part.text.cs)]
    ELSE IF Truthy(part.functionResponse) /\ role = "user"
    THEN [acc EXCEPT !.messages = Append(@, ToolMessage(part.functionResponse))]
    ELSE IF Truthy(part.functionCall) /\ role = "assistant"
    THEN [acc EXCEPT !.toolCalls = Append(@, AssistantToolCall(part.functionCall))]
    ELSE IF Truthy(part.inlineData) \/ Truthy(part.fileData)
    THEN [acc EXCEPT !.textParts =
            Append(@, AttachmentOmitted(Or(Opt(part.inlineData, GetMimeType),
                                           Opt(part.fileData, GetMimeType))))]
    ELSE acc

RECURSIVE ConvertParts(_, _, _, _)
ConvertParts(parts, k, role, acc) ==
    IF k > Len(parts) THEN acc
    ELSE ConvertParts(parts, k + 1, role, ConvertPart(parts[k], role, acc))

\* the condition of the assistant message, without the reasoning
HasAssistantContentNoReasoning(acc) == acc.textParts # <<>> \/ acc.toolCalls # <<>>

\* textParts.length > 0 || toolCalls.length > 0 || reasoningParts.length > 0
HasAssistantContent(acc) ==
    acc.textParts # <<>> \/ acc.toolCalls # <<>> \/ acc.reasoningParts # <<>>

AssistantMessage(acc) ==
    GlmMessage("assistant",
               Text(IF acc.textParts # <<>> THEN Join(acc.textParts, <<NL>>) ELSE <<>>),
               IF acc.reasoningParts # <<>> THEN Text(Join(acc.reasoningParts, <<>>))
               ELSE Undefined,
               IF acc.toolCalls # <<>> THEN Arr(acc.toolCalls) ELSE Undefined,
               Undefined, Undefined)

UserMessage(acc) ==
    GlmMessage("user", Text(Join(acc.textParts, <<NL>>)), Undefined, Undefined, Undefined,
               Undefined)

\* convertContent after its loop
TurnMessages(role, acc) ==
    IF role = "assistant"
    THEN IF HasAssistantContent(acc) THEN Append(acc.messages, AssistantMessage(acc))
         ELSE acc.messages
    ELSE IF acc.textParts # <<>> THEN Append(acc.messages, UserMessage(acc))
    ELSE acc.messages

VendorRole(content) == IF content.role = Str("model") THEN "assistant" ELSE "user"

ConvertContentAs(content, role) ==
    TurnMessages(role, ConvertParts(Coalesce(content.parts, Arr(<<>>)).a, 1, role, NoParts))

ConvertContent(content) == ConvertContentAs(content, VendorRole(content))

\* normalizeContents: toContent
ToContent(entry) ==
    IF entry.t = "text"
    THEN Content(Str("user"),
                 Arr(<<Part(Undefined, entry, Undefined, Undefined, Undefined, Undefined)>>))
    ELSE IF "role" \in DOMAIN entry THEN entry
    ELSE Content(Str("user"), Arr(<<entry>>))

NormalizeContents(source) ==
    IF ~Truthy(source) THEN <<>>
    ELSE Map(IF source.t = "array" THEN source.a ELSE <<source>>, ToContent)

GetText(part) == part.text

\* extractSystemInstruction: an entry of an array instruction
InstructionText(part) ==
    IF part.t = "text" THEN part.cs ELSE CharsOf(Coalesce(part.text, Text(<<>>)))

TruthyText(text) == Truthy(text)

ExtractSystemInstruction(instruction) ==
    IF instruction.t = "text" THEN instruction.cs
    ELSE IF ~Truthy(instruction) THEN <<>>
    ELSE IF "parts" \in DOMAIN instruction /\ instruction.parts.t = "array"
    THEN Join(Map(SelectSeq(Map(instruction.parts.a, GetText), TruthyText), CharsOf),
              <<NL>>)
    ELSE IF instruction.t = "array" THEN Join(Map(instruction.a, InstructionText), <<NL>>)
    ELSE ObjectObject

SystemMessage(instruction) ==
    GlmMessage("system", Text(ExtractSystemInstruction(instruction)), Undefined, Undefined,
               Undefined, Undefined)

GetSystemInstruction(config) == config.systemInstruction

SystemMessages(instruction) ==
    IF Truthy(instruction) THEN <<SystemMessage(instruction)>> ELSE <<>>

BuildMessages(req) ==
    SystemMessages(Opt(req.config, GetSystemInstruction))
    \o Concat(Map(NormalizeContents(req.contents), ConvertContent))

----------------------------------------------------------------------------
(* The request: tools, tool choice and the payload *)

Tool(functionDeclarations) == [t |-> "object", functionDeclarations |-> functionDeclarations]
FunctionDeclaration(name, description, parametersJsonSchema, parameters) ==
    [t |-> "object", name |-> name, description |-> description,
     parametersJsonSchema |-> parametersJsonSchema, parameters |-> parameters]

HasFunctionDeclarations(item) == Truthy(item.functionDeclarations)

\* extractTools
ExtractTools(toolList) ==
    IF ~Truthy(toolList) THEN <<>>
    ELSE SelectSeq(IF toolList.t = "array" THEN toolList.a ELSE <<toolList>>,
                   HasFunctionDeclarations)

\* declaration && declaration.name
Named(declaration) == Truthy(declaration) /\ Truthy(declaration.name)

GlmToolDefinition(declaration) ==
    [type |-> "function",
     function |-> [name |-> declaration.name, description |-> declaration.description,
                   parameters |-> Coalesce(Coalesce(declaration.parametersJsonSchema,
                                                    declaration.parameters),
                                           EmptyObject)]]

\* the definitions of one tool
ToolDefinitions(tool) ==
    IF ~Truthy(tool.functionDeclarations) THEN <<>>
    ELSE Map(SelectSeq(tool.functionDeclarations.a, Named), GlmToolDefinition)

\* convertFunctionDeclarations
ConvertFunctionDeclarations(tools) == Concat(Map(tools, ToolDefinitions))

\* the elements of an array as a set: new Set(allowed)
SetOf(a) == {a[i] : i \in 1..Len(a)}

\* normalizeAllowedFunctions
NormalizeAllowedFunctions(declarations, allowed) ==
    IF ~Truthy(allowed) \/ Len(allowed.a) = 0 THEN declarations
    ELSE LET Allowed(decl) == Truthy(decl.name) /\ decl.name \in SetOf(allowed.a)
         IN  Arr(SelectSeq(declarations.a, Allowed))

\* applyFunctionFilters: the tool with its declarations filtered
FilteredTool(tool, allowed) ==
    IF ~Truthy(tool.functionDeclarations) THEN tool
    ELSE [tool EXCEPT !.functionDeclarations = NormalizeAllowedFunctions(@, allowed)]

\* (tool.functionDeclarations?.length ?? 0) > 0
DeclaresSome(tool) ==
    Truthy(tool.functionDeclarations) /\ Len(tool.functionDeclarations.a) > 0

\* applyFunctionFilters
ApplyFunctionFilters(tools, allowed) ==
    IF ~Truthy(allowed) \/ Len(allowed.a) = 0 THEN tools
    ELSE SelectSeq([i \in 1..Len(tools) |-> FilteredTool(tools[i], allowed)], DeclaresSome)

\* FunctionCallingConfigMode
AUTO == Str("AUTO")
ANY == Str("ANY")
NONE == Str("NONE")
VALIDATED == Str("VALIDATED")
MODE_UNSPECIFIED == Str("MODE_UNSPECIFIED")

ForcedChoice(name) ==
    [t |-> "object", type |-> "function", function |-> [name |-> name]]

\* buildToolChoice without the forced choice of the single allowed function
BuildToolChoiceNeverForced(mode, allowed) ==
    IF ~Truthy(mode) \/ mode = AUTO THEN Undefined
    ELSE IF mode = NONE THEN Str("none")
    ELSE IF mode \in {ANY, VALIDATED} THEN Str("required")
    ELSE Undefined

\* buildToolChoice
BuildToolChoice(mode, allowed) ==
    IF ~Truthy(mode) \/ mode = AUTO THEN Undefined
    ELSE IF mode = NONE THEN Str("none")
    ELSE IF mode \in {ANY, VALIDATED} /\ Truthy(allowed) /\ Len(allowed.a) = 1
    THEN ForcedChoice(allowed.a[1])
    ELSE IF mode \in {ANY, VALIDATED} THEN Str("required")
    ELSE Undefined

DEFAULT_GLM_MODEL == Text(<<"g", "l", "m", "-", "4", ".", "7">>)

\* mapModelName
MapModelName(model) ==
    IF Falsy(model) THEN DEFAULT_GLM_MODEL
    ELSE IF StartsWith(model.cs, <<"g", "l", "m", "-">>) THEN model
    ELSE DEFAULT_GLM_MODEL

\* the options the GlmContentGenerator is constructed with
Options(endpoint, clearThinking) == [endpoint |-> endpoint, clearThinking |-> clearThinking]

GetTemperature(config) == config.temperature
GetTopP(config) == config.topP
GetMaxOutputTokens(config) == config.maxOutputTokens
GetToolConfig(config) == config.toolConfig
GetTools(config) == config.tools
GetFunctionCallingConfig(toolConfig) == toolConfig.functionCallingConfig
GetAllowedFunctionNames(functionCallingConfig) == functionCallingConfig.allowedFunctionNames
GetMode(functionCallingConfig) == functionCallingConfig.mode

\* toPayload: tools, filtered when allowedFunctions has names
FilteredTools(tools, allowedFunctions) ==
    IF Truthy(allowedFunctions) /\ Len(allowedFunctions.a) > 0
    THEN ApplyFunctionFilters(tools, allowedFunctions)
    ELSE tools

\* toPayload: payload.tools is set if there are definitions
PayloadTools(toolDefinitions) ==
    IF Len(toolDefinitions) > 0 THEN Arr(toolDefinitions) ELSE Undefined

\* toPayload: payload.tool_choice is set if toolChoice is truthy
PayloadToolChoice(toolChoice) == IF Truthy(toolChoice) THEN toolChoice ELSE Undefined

\* thinking without the clearThinking option
PayloadThinkingKept(clearThinking) == [type |-> "enabled", clear_thinking |-> Bool(FALSE)]

\* toPayload: payload.thinking
PayloadThinking(clearThinking) ==
    [type |-> "enabled", clear_thinking |-> Coalesce(clearThinking, Bool(FALSE))]

\* toPayload, given toolConfig?.functionCallingConfig
PayloadOf(req, stream, functionCallingConfig) ==
    [model |-> MapModelName(req.model),
     messages |-> BuildMessages(req),
     temperature |-> Coalesce(Opt(req.config, GetTemperature), Undefined),
     top_p |-> Coalesce(Opt(req.config, GetTopP), Undefined),
     max_tokens |-> Coalesce(Opt(req.config, GetMaxOutputTokens), Undefined),
     stream |-> stream,
     tools |-> PayloadTools(ConvertFunctionDeclarations(
                  FilteredTools(ExtractTools(Opt(req.config, GetTools)),
                                Opt(functionCallingConfig, GetAllowedFunctionNames)))),
     tool_choice |-> PayloadToolChoice(
                        BuildToolChoice(Opt(functionCallingConfig, GetMode),
                                        Opt(functionCallingConfig,
                                            GetAllowedFunctionNames))),
     thinking |-> PayloadThinking(options.clearThinking)]

\* toPayload
ToPayload(req, stream) ==
    PayloadOf(req, stream,
              Opt(Opt(req.config, GetToolConfig), GetFunctionCallingConfig))

----------------------------------------------------------------------------
(* The requests *)

\* a turn has at most MaxParts parts
MaxParts == 2

\* the names of models
GlmModel == Text(<<"g", "l", "m", "-", "4">>)
ForeignModel == Text(<<"g", "e", "m">>)

\* the tagged variants of a Part
TextOf(cs) == Part(Undefined, Text(cs), Undefined, Undefined, Undefined, Undefined)
ThoughtOf(cs) == Part(Bool(TRUE), Text(cs), Undefined, Undefined, Undefined, Undefined)
CallOf(functionCall) ==
    Part(Undefined, Undefined, functionCall, Undefined, Undefined, Undefined)
ResultOf(functionResponse) ==
    Part(Undefined, Undefined, Undefined, functionResponse, Undefined, Undefined)
InlineOf(blob) == Part(Undefined, Undefined, Undefined, Undefined, blob, Undefined)
FileOf(blob) == Part(Undefined, Undefined, Undefined, Undefined, Undefined, blob)

Png == Text(<<"p", "n", "g">>)

RequestParts ==
    {TextOf(Hi), TextOf(<<"y">>), TextOf(<<>>),
     ThoughtOf(Thinking), ThoughtOf(<<"k">>),
     CallOf(FunctionCall(CallIds[1], CallNames[1], JsonValue(ArgX1))),
     CallOf(FunctionCall(Undefined, CallNames[2], Undefined)),
     ResultOf(FunctionResponse(CallIds[1], CallNames[1], JsonValue(ArgX1))),
     ResultOf(FunctionResponse(Undefined, CallNames[2], RawObject(<<QUOTE>>))),
     ResultOf(FunctionResponse(Undefined, Undefined, Undefined)),
     ResultOf(FunctionResponse(CallIds[2], CallNames[2], Circular)),
     InlineOf(Blob(Png)), FileOf(Blob(Undefined))}

RECURSIVE SeqsUpTo(_, _)
\* the sequences over the set of at most n elements
SeqsUpTo(set, n) ==
    IF n = 0 THEN {<<>>}
    ELSE {<<>>} \cup {<<x>> \o rest : x \in set, rest \in SeqsUpTo(set, n - 1)}

Roles == {Str("user"), Str("model"), Undefined}

Turns ==
    {Content(role, Arr(parts)) : role \in Roles, parts \in SeqsUpTo(RequestParts, MaxParts)}
    \cup {Content(role, Undefined) : role \in Roles}

\* a function call of the model and the turn of the user that answers it
CallTurn == Content(Str("model"), Arr(<<TextOf(Hi), CallOf(FunctionCall(CallIds[1], CallNames[1], JsonValue(ArgX1)))>>))
ResultTurn ==
    Content(Str("user"),
            Arr(<<ResultOf(FunctionResponse(CallIds[1], CallNames[1], JsonValue(ArgX1))),
                  TextOf(Hi)>>))

\* a function call without id and the turn of the user that answers it
AnonymousCallTurn ==
    Content(Str("model"), Arr(<<CallOf(FunctionCall(Undefined, CallNames[2], Undefined))>>))
AnonymousResultTurn ==
    Content(Str("user"),
            Arr(<<ResultOf(FunctionResponse(Undefined, CallNames[2], JsonValue(ArgX1)))>>))

\* request.contents: turns, one turn, a string, parts, nothing
ContentsOf ==
    {Arr(<<turn>>) : turn \in Turns}
    \cup {Arr(<<CallTurn, ResultTurn>>), Arr(<<AnonymousCallTurn, AnonymousResultTurn>>),
          Arr(<<CallTurn, AnonymousCallTurn, ResultTurn, AnonymousResultTurn>>),
          CallTurn, Text(Hi), Text(<<>>), TextOf(Hi),
          Arr(<<Text(Hi), TextOf(<<"y">>)>>), Arr(<<>>), Undefined}

FunctionCallingConfig(mode, allowedFunctionNames) ==
    [t |-> "object", mode |-> mode, allowedFunctionNames |-> allowedFunctionNames]
ToolConfig(functionCallingConfig) ==
    [t |-> "object", functionCallingConfig |-> functionCallingConfig]

Modes == {Undefined, AUTO, NONE, ANY, VALIDATED, MODE_UNSPECIFIED}
AllowedNames ==
    {Undefined, Arr(<<>>), Arr(<<CallNames[1]>>), Arr(<<CallNames[2], CallNames[1]>>)}

ToolConfigs ==
    {Undefined, ToolConfig(Undefined)}
    \cup {ToolConfig(FunctionCallingConfig(mode, allowed)) :
            mode \in Modes, allowed \in AllowedNames}

Schema == JsonValue(ArgX1)
Declarations ==
    Arr(<<FunctionDeclaration(CallNames[1], Text(<<"d">>), Schema, Undefined),
          FunctionDeclaration(CallNames[2], Undefined, Undefined, Schema),
          FunctionDeclaration(Undefined, Undefined, Undefined, Undefined)>>)
ToolLists ==
    {Undefined,
     Arr(<<Tool(Declarations), Tool(Undefined)>>),
     Arr(<<Tool(Arr(<<FunctionDeclaration(CallNames[2], Undefined, Undefined,
                                          Undefined)>>)),
           Tool(Declarations)>>),
     Tool(Declarations)}

Sys == <<"s", "y", "s">>
SystemInstructions ==
    {Undefined, Text(Sys), Text(<<>>),
     Content(Undefined, Arr(<<TextOf(Sys), TextOf(<<>>), TextOf(Hi)>>)),
     Arr(<<Text(Sys), TextOf(Hi), InlineOf(Blob(Png))>>),
     TextOf(Sys)}

Config(systemInstruction, toolConfig, tools, temperature, topP, maxOutputTokens) ==
    [t |-> "object", systemInstruction |-> systemInstruction, toolConfig |-> toolConfig,
     tools |-> tools, temperature |-> temperature, topP |-> topP,
     maxOutputTokens |-> maxOutputTokens]

Configs ==
    {Undefined}
    \cup {Config(Undefined, toolConfig, tools, Undefined, Undefined, Undefined) :
            toolConfig \in ToolConfigs, tools \in ToolLists}
    \cup {Config(instruction, Undefined, Undefined, Undefined, Undefined, Undefined) :
            instruction \in SystemInstructions}
    \cup {Config(Undefined, Undefined, Undefined, Num(0), Null, Num(1))}

GenerateContentParameters(model, contents, config) ==
    [model |-> model, contents |-> contents, config |-> config]

\* the request of the calls whose response is followed
Request ==
    GenerateContentParameters(GlmModel, Arr(<<Content(Str("user"), Arr(<<TextOf(Hi)>>))>>),
                              Undefined)

Requests ==
    {GenerateContentParameters(GlmModel, contents, Undefined) : contents \in ContentsOf}
    \cup {GenerateContentParameters(model, Request.contents, config) :
            model \in {GlmModel, ForeignModel, Undefined}, config \in Configs}

----------------------------------------------------------------------------
(* The CLI around the generator: authentication types, configuration and   *)
(* environment                                                             *)

\* enum AuthType
LOGIN_WITH_GOOGLE == Str("oauth-personal")
USE_GEMINI == Str("gemini-api-key")
USE_VERTEX_AI == Str("vertex-ai")
LEGACY_CLOUD_SHELL == Str("cloud-shell")
COMPUTE_ADC == Str("compute-default-credentials")
USE_GLM == Str("glm-api-key")

AuthType ==
    {LOGIN_WITH_GOOGLE, USE_GEMINI, USE_VERTEX_AI, LEGACY_CLOUD_SHELL, COMPUTE_ADC, USE_GLM}

\* config.getContentGeneratorConfig()
ContentGeneratorConfig(authType, apiKey) == [t |-> "object", authType |-> authType,
                                             apiKey |-> apiKey]

\* what the tools read of the Config: getContentGeneratorConfig(), getGlmEndpoint?.(),
\* getGlmDisableThinking?.(), getGlmClearThinking?.(), getActiveModel()
CliConfig(contentGeneratorConfig, glmEndpoint, glmDisableThinking, glmClearThinking,
          activeModel) ==
    [contentGeneratorConfig |-> contentGeneratorConfig, glmEndpoint |-> glmEndpoint,
     glmDisableThinking |-> glmDisableThinking, glmClearThinking |-> glmClearThinking,
     activeModel |-> activeModel]

\* process.env: a variable is a string or is not set
Env(glmApiBaseUrl, zaiApiBaseUrl, zaiApiKey, geminiApiKey, geminiDefaultAuthType) ==
    [GLM_API_BASE_URL |-> glmApiBaseUrl, ZAI_API_BASE_URL |-> zaiApiBaseUrl,
     ZAI_API_KEY |-> zaiApiKey, GEMINI_API_KEY |-> geminiApiKey,
     GEMINI_DEFAULT_AUTH_TYPE |-> geminiDefaultAuthType]

\* nothing configured, nothing in the environment
NoCliConfig == CliConfig(Undefined, Undefined, Undefined, Undefined, Undefined)
NoEnv == Env(Undefined, Undefined, Undefined, Undefined, Undefined)

\* no web search was executed
NoSearch ==
    /\ searched = Undefined
    /\ geminiCalls = <<>>

\* apiKeyCredentialStorage.ts
LEGACY_DEFAULT_ENTRY == "default-api-key"

\* API_KEY_ENTRIES[authType], undefined for a value that is not of the enum
API_KEY_ENTRIES(authType) ==
    CASE authType = USE_GEMINI -> Str("gemini-api-key")
      [] authType = USE_GLM -> Str("glm-api-key")
      [] authType = LOGIN_WITH_GOOGLE -> Str("oauth-personal")
      [] authType = USE_VERTEX_AI -> Str("vertex-ai")
      [] authType = LEGACY_CLOUD_SHELL -> Str("cloud-shell")
      [] authType = COMPUTE_ADC -> Str("compute-default-credentials")
      [] OTHER -> Undefined

\* authType: AuthType = AuthType.USE_GEMINI
DefaultAuthType(authType) == IF authType = Undefined THEN USE_GEMINI ELSE authType

\* getEntryKey with one entry for every auth type
GetEntryKeyShared(authType) == API_KEY_ENTRIES(USE_GEMINI).s

\* getEntryKey
GetEntryKey(authType) ==
    Coalesce(API_KEY_ENTRIES(DefaultAuthType(authType)), API_KEY_ENTRIES(USE_GEMINI)).s

\* the names of the entries of the storage
Entries == {API_KEY_ENTRIES(authType).s : authType \in AuthType} \cup {LEGACY_DEFAULT_ENTRY}

\* a storage with no entry
NoEntries == [entry \in Entries |-> Undefined]

\* no key was loaded, saved or cleared
NoKeys ==
    /\ storage = NoEntries
    /\ keyCall = Undefined

\* settings.merged.security.auth, and the selectedType that settings.setValue was
\* given for the user scope
Settings(selectedType, enforcedType, useExternal, userSelectedType) ==
    [selectedType |-> selectedType, enforcedType |-> enforcedType,
     useExternal |-> useExternal, userSelectedType |-> userSelectedType]

\* useAuthCommand: the initial state of the hook, with nothing in the settings
NoAuth ==
    /\ authState = "Unauthenticated"
    /\ authError = Null
    /\ apiKeyDefaultValue = Undefined
    /\ apiKeyAuthType = USE_GEMINI
    /\ settings = Settings(Undefined, Undefined, Undefined, Undefined)
    /\ refreshed = <<>>

\* no chunk was consumed apart from a call and no body is decoded
NothingApart ==
    /\ consumed = Undefined
    /\ received = <<>>
    /\ undecoded = <<>>
    /\ buffer = <<>>
    /\ sseChunks = <<>>
    /\ ended = FALSE

DEFAULT_GLM_ENDPOINT == Text(<<"https://api.z.ai/api/coding/paas/v4/chat/completions">>)

----------------------------------------------------------------------------
(* The operations *)

Start == [line |-> 1, choice |-> 1]
NoSource == [rec |-> 0, line |-> 0, choice |-> 0]
\* the consumer's next(): none called yet, one unresolved, or what the latest
\* one resolved with
NotCalled == [state |-> "none"]
Pending == [state |-> "pending"]
Resolved(value, done) == [state |-> "resolved", value |-> value, done |-> done]

\* a generator not made yet
NewStream ==
    [pc |-> "idle", chunk |-> <<>>, at |-> Start, pendingToolCalls |-> <<>>,
     responses |-> <<>>, out |-> NotCalled, yielded |-> <<>>, records |-> <<>>]

StreamIds == {1, 2}

Init ==
    /\ pc = "idle"
    /\ http = Undefined
    /\ result = NoResult
    /\ error = NoError
    /\ chunk = <<>>
    /\ at = Start
    /\ pendingToolCalls = <<>>
    /\ responses = <<>>
    /\ out = NotCalled
    /\ yielded = NoSource
    /\ nread = 0
    /\ vendor = [calls |-> <<>>, flushed |-> FALSE]
    /\ request = Request
    /\ payload = Undefined
    /\ posts = <<>>
    /\ locked = FALSE
    /\ buffered = 0
    /\ streams = [i \in StreamIds |-> NewStream]
    /\ options = Options(Undefined, Undefined)
    /\ cliConfig = NoCliConfig
    /\ env = NoEnv
    /\ NoSearch
    /\ NoKeys
    /\ NoAuth
    /\ NothingApart

\* fetch(endpoint, {method: 'POST', ..., body: JSON.stringify(payload)}) twice
FetchAgain(log, endpoint, body) ==
    log \o <<[endpoint |-> endpoint, body |-> body], [endpoint |-> endpoint, body |-> body]>>

\* fetch(endpoint, {method: 'POST', ..., body: JSON.stringify(payload)})
Fetch(log, endpoint, body) == Append(log, [endpoint |-> endpoint, body |-> body])

\* postCompletion: the default endpoint, whatever the options
PostEndpointDefault(opts) == DEFAULT_GLM_ENDPOINT

\* postCompletion: this.options.endpoint ?? DEFAULT_GLM_ENDPOINT
PostEndpoint(opts) == Coalesce(opts.endpoint, DEFAULT_GLM_ENDPOINT)

FetchFailed == [t |-> "error", message |-> "fetch failed"]

\* response.text().catch(() => '')
BodyText(response) == IF response.text = Rejects THEN Text(<<>>) ELSE response.text

\* the error without the fallback to response.statusText
RequestFailedTextOnly(status, text, statusText) ==
    [t |-> "error", message |-> "GLM API request failed", status |-> status,
     detail |-> text]

\* new Error(`GLM API request failed (${response.status}): ${text || response.statusText}`)
RequestFailed(status, text, statusText) ==
    [t |-> "error", message |-> "GLM API request failed", status |-> status,
     detail |-> IF text.cs # <<>> THEN text ELSE statusText]

\* postCompletion: the error thrown for the response, or NoError
PostCompletion(response) ==
    IF response = FetchRejects THEN FetchFailed
    ELSE IF ~response.ok
    THEN RequestFailed(response.status, BodyText(response), response.statusText)
    ELSE NoError

NoChoices == [t |-> "error", message |-> "GLM API returned no choices"]
NoBody == [t |-> "error", message |-> "GLM API did not return a response body for streaming"]

\* data.choices, without its length
HasChoicesArray(data) == ~Nullish(data.choices)

\* data.choices?.length
HasChoices(data) == ~Nullish(data.choices) /\ Len(data.choices.a) > 0

Returns(value) == [result |-> value, error |-> NoError]
Throws(e) == [result |-> NoResult, error |-> e]

\* generateContent after postCompletion
TranslateResponse(response, failure) ==
    IF failure # NoError THEN Throws(failure)
    ELSE IF HasChoices(response.json) THEN Returns(ToGenerateContentResponse(response.json))
    ELSE Throws(NoChoices)

\* generateContent: what it returns, or the error it throws
GenerateContentOutcome(response) == TranslateResponse(response, PostCompletion(response))

\* generateContent, for the responses fetch may resolve with (or its rejection)
GenerateContentFrom(fetched) ==
    /\ pc = "idle"
    /\ \E response \in fetched :
        \E outcome \in {GenerateContentOutcome(response)} :
            /\ http' = IF response = FetchRejects THEN Undefined ELSE response
            /\ result' = outcome.result
            /\ error' = outcome.error
            /\ pc' = IF outcome.error = NoError THEN "returned" ELSE "threw"
    /\ \E body \in {ToPayload(request, FALSE)} :
        /\ payload' = body
        /\ posts' = Fetch(posts, PostEndpoint(options), body)
    /\ UNCHANGED <<chunk, at, pendingToolCalls, responses, out, yielded, nread, vendor,
                   request, locked, buffered>>
    /\ UNCHANGED <<streams, outside>>

GenerateContent ==
    GenerateContentFrom({OkResponse(data) : data \in ChatCompletionResponses}
                            \cup FailedResponses \cup {FetchRejects})

\* generateContentStream without the test of response.body
OpenStreamUnchecked(response, failure) == failure

\* generateContentStream after postCompletion
OpenStream(response, failure) ==
    IF failure # NoError THEN failure
    ELSE IF Nullish(response.body) THEN NoBody
    ELSE NoError

\* generateContentStream: returns the generator, whose body has not run yet
GenerateContentStreamFrom(fetched) ==
    /\ pc = "idle"
    /\ \E response \in fetched :
        \E failure \in {OpenStream(response, PostCompletion(response))} :
            /\ http' = IF response = FetchRejects THEN Undefined ELSE response
            /\ error' = failure
            /\ pc' = IF failure = NoError THEN "streaming" ELSE "threw"
    /\ \E body \in {ToPayload(request, TRUE)} :
        /\ payload' = body
        /\ posts' = Fetch(posts, PostEndpoint(options), body)
    /\ UNCHANGED <<result, chunk, at, pendingToolCalls, responses, out, yielded, nread,
                   vendor, request, locked, buffered>>
    /\ UNCHANGED <<streams, outside>>

GenerateContentStream ==
    GenerateContentStreamFrom(StreamResponses \cup FailedResponses \cup {FetchRejects})

\* streamFromSSE is given request.model ?? 'glm'
StreamModel == Coalesce(request.model, Str("glm"))

\* the fragments of a record, each with the record, line and choice it comes from
Sourced(rs, rec) ==
    [i \in 1..Len(rs) |->
        [value |-> rs[i].value,
         src |-> [rec |-> rec, line |-> rs[i].line, choice |-> rs[i].choice]]]

\* finally { reader.releaseLock() }
Released == FALSE

\* processSseChunk runs in the record from the position given, up to its next
\* yield or its end; at its end the record is left
Run(record, rec, line, choice, after) ==
    \E r \in {ProcessSseChunk(record, line, choice, StreamModel, pendingToolCalls)} :
        /\ chunk' = IF r.line > Len(record) THEN <<>> ELSE record
        /\ at' = IF r.line > Len(record) THEN Start
                 ELSE [line |-> r.line, choice |-> r.choice]
        /\ responses' = Sourced(r.responses, rec)
        /\ pendingToolCalls' = r.pending
        /\ error' = r.error
        /\ pc' = IF r.error = NoError THEN after ELSE "threw"
        /\ locked' = IF r.error = NoError THEN locked ELSE Released

\* the step of the generator that takes up the record m.record
Process(m, after) ==
    /\ vendor' = m.vendor
    /\ nread' = nread + 1
    /\ Run(m.record, nread + 1, 1, 1, after)

\* the consumer calls next(): the generator resumes; the first next() starts its
\* body, which takes the reader of the response body
Pull ==
    /\ pc \in {"streaming", "flushed"}
    /\ out # Pending
    /\ out' = Pending
    /\ locked' = TRUE
    /\ UNCHANGED <<pc, sent, http, result, error, chunk, at, pendingToolCalls, responses,
                   yielded, nread, vendor, buffered>>
    /\ UNCHANGED <<streams, outside>>

\* the generator goes on in the record it is suspended in, after the last
\* response of a choice
Resume ==
    /\ pc \in {"streaming", "flushed"}
    /\ out = Pending
    /\ responses = <<>>
    /\ chunk # <<>>
    /\ Run(chunk, nread, at.line, at.choice, pc)
    /\ UNCHANGED <<sent, http, result, out, yielded, nread, vendor, buffered>>
    /\ UNCHANGED <<streams, outside>>

\* a generator that reads on without a next() of the consumer
AwaitsReadUnasked ==
    /\ pc = "streaming"
    /\ responses = <<>>
    /\ chunk = <<>>
    /\ buffered = 0

\* the generator is at `await reader.read()`: a next() of the consumer is
\* unresolved, the record in hand is finished and no complete record is left in
\* the buffer
AwaitsRead ==
    /\ pc = "streaming"
    /\ out = Pending
    /\ responses = <<>>
    /\ chunk = <<>>
    /\ buffered = 0

\* the most records one reader.read() completes (a read that completes none
\* leaves everything but the buffer as it is)
MaxPerRead == 2

\* reader.read() delivers bytes that complete k records: the first is cut from
\* the buffer and processed, the others stay in the buffer
Read ==
    /\ AwaitsRead
    /\ \E k \in 1..MaxPerRead :
        /\ nread + k <= MaxRecords
        /\ buffered' = k - 1
    /\ \E m \in RecordMoves(vendor) : Process(m, "streaming")
    /\ UNCHANGED <<sent, http, result, out, yielded>>
    /\ UNCHANGED <<streams, outside>>

\* the boundary loop cuts the next complete record from the buffer, without
\* reading
Cut ==
    /\ pc = "streaming"
    /\ out = Pending
    /\ responses = <<>>
    /\ chunk = <<>>
    /\ buffered > 0
    /\ buffered' = buffered - 1
    /\ \E m \in RecordMoves(vendor) : Process(m, "streaming")
    /\ UNCHANGED <<sent, http, result, out, yielded>>
    /\ UNCHANGED <<streams, outside>>

\* what may be left in the buffer at the end of the data: a record that lacks
\* its boundary
LastMoves(v) ==
    {m \in RecordMoves(v) :
        m.record \in {<<ChunkLine(HiChunk)>>, <<ChunkLine(StopChunk)>>,
                      <<ChunkLine(HiChunk), ChunkLine(StopChunk)>>}
                     \cup {<<raw>> : raw \in RawLines}}

\* reader.read() reports the end of the data: what is left in the buffer is
\* processed if it is not blank
ReadDone ==
    /\ AwaitsRead
    /\ \/ /\ pc' = "flushed"
          /\ UNCHANGED <<chunk, at, vendor, nread, responses, pendingToolCalls, error,
                         locked>>
       \/ /\ nread < MaxRecords
          /\ \E m \in LastMoves(vendor) : Process(m, "flushed")
    /\ UNCHANGED <<sent, http, result, out, yielded, buffered>>
    /\ UNCHANGED <<streams, outside>>

ReadFailed == [t |-> "error", message |-> "read failed"]

\* reader.read() rejects (the transport fails, the request is aborted): the
\* rejection leaves the generator through finally
ReadRejects ==
    /\ AwaitsRead
    /\ pc' = "threw"
    /\ error' = ReadFailed
    /\ locked' = Released
    /\ UNCHANGED <<sent, http, result, chunk, at, pendingToolCalls, responses, out,
                   yielded, nread, vendor, buffered>>
    /\ UNCHANGED <<streams, outside>>

\* the generator yields the next response: the consumer's next() resolves with it
Yield ==
    /\ pc \in {"streaming", "flushed"}
    /\ out = Pending
    /\ responses # <<>>
    /\ out' = Resolved(Head(responses).value, FALSE)
    /\ yielded' = Head(responses).src
    /\ responses' = Tail(responses)
    /\ UNCHANGED <<pc, sent, http, result, error, chunk, at, pendingToolCalls, nread,
                   vendor, locked, buffered>>
    /\ UNCHANGED <<streams, outside>>

\* the generator returns: the reader lock is released and next() reports done
Return ==
    /\ pc = "flushed"
    /\ out = Pending
    /\ responses = <<>>
    /\ chunk = <<>>
    /\ pc' = "done"
    /\ out' = Resolved(Undefined, TRUE)
    /\ locked' = Released
    /\ UNCHANGED <<sent, http, result, error, chunk, at, pendingToolCalls, responses,
                   yielded, nread, vendor, buffered>>
    /\ UNCHANGED <<streams, outside>>

\* the generator is suspended at a yield: the latest next() resolved with a
\* fragment
AtYield == pc \in {"streaming", "flushed"} /\ out # NotCalled /\ out # Pending

\* the consumer calls return() (a for await loop that is left early).  At a
\* yield the generators are left through finally, which no catch intercepts;
\* a generator whose body never started just ends.
ConsumerReturn ==
    /\ pc \in {"streaming", "flushed"}
    /\ out # Pending
    /\ pc' = "closed"
    /\ out' = Resolved(Undefined, TRUE)
    /\ locked' = Released
    /\ chunk' = <<>>
    /\ at' = Start
    /\ responses' = <<>>
    /\ UNCHANGED <<sent, http, result, error, pendingToolCalls, yielded, nread, vendor,
                   buffered>>
    /\ UNCHANGED <<streams, outside>>

\* the consumer calls throw(e).  At a yield the error is thrown at the yield of
\* chunkToResponses and reaches the yield* of processSseChunk, which is inside
\* its try: the catch logs it and the loop goes on with the next line of the
\* record, the throw() waiting like a next().  Before the first next() the
\* generator just ends with the error.
ConsumerThrow ==
    /\ pc \in {"streaming", "flushed"}
    /\ out # Pending
    /\ IF out = NotCalled
       THEN /\ pc' = "closed"
            /\ out' = Resolved(Undefined, TRUE)
            /\ UNCHANGED <<at, responses>>
       ELSE /\ out' = Pending
            /\ at' = [line |-> at.line + 1, choice |-> 1]
            /\ responses' = <<>>
            /\ UNCHANGED pc
    /\ UNCHANGED <<sent, http, result, error, chunk, pendingToolCalls, yielded, nread,
                   vendor, locked, buffered>>
    /\ UNCHANGED <<streams, outside>>

Next ==
    \/ GenerateContent
    \/ GenerateContentStream
    \/ Pull
    \/ Resume
    \/ Read
    \/ Cut
    \/ ReadDone
    \/ ReadRejects
    \/ Yield
    \/ Return
    \/ ConsumerReturn
    \/ ConsumerThrow

Spec == Init /\ [][Next]_vars

----------------------------------------------------------------------------
(* Two streams of one GlmContentGenerator, consumed in any interleaving *)

\* each generator reads at most MaxStreamRecords SSE records
MaxStreamRecords == 2

\* a chunk that carries the whole of a tool call
CallChunk(finishReason) ==
    SseJson(Arr(<<ChunkChoice(Delta(Undefined, Undefined,
                                    Arr(<<ToolCall(CallIds[1], CallNames[1],
                                                   Text(ArgObject))>>)),
                              finishReason)>>),
            Undefined, Str("glm-4.7"))

\* the records the two bodies deliver
StreamRecords ==
    {<<ChunkLine(HiChunk)>>,
     <<ChunkLine(StopChunk)>>,
     <<ChunkLine(CallChunk(Null))>>,
     <<ChunkLine(HiChunk), ChunkLine(CallChunk(Str("tool_calls")))>>}

\* one map of pending tool calls kept on the instance
PendingToolCallsOfInstance(ss, i) == ss[1].pendingToolCalls

\* const pendingToolCalls = new Map(): a local of each call of streamFromSSE
PendingToolCallsOf(ss, i) == ss[i].pendingToolCalls

\* generateContentStream returns a generator
StreamOpen(i) ==
    /\ streams[i].pc = "idle"
    /\ streams' = [streams EXCEPT ![i].pc = "streaming"]
    /\ UNCHANGED <<single, outside>>

\* the consumer of the i-th stream calls next()
StreamPull(i) ==
    /\ streams[i].pc \in {"streaming", "flushed"}
    /\ streams[i].out # Pending
    /\ streams' = [streams EXCEPT ![i].out = Pending]
    /\ UNCHANGED <<single, outside>>

\* processSseChunk of the i-th stream runs in the record from the position
\* given, up to its next yield or its end
StreamRun(i, record, records, line, choice, after) ==
    \E r \in {ProcessSseChunk(record, line, choice, StreamModel,
                              PendingToolCallsOf(streams, i))} :
        streams' = [streams EXCEPT ![i] =
            [pc |-> IF r.error = NoError THEN after ELSE "threw",
             chunk |-> IF r.line > Len(record) THEN <<>> ELSE record,
             at |-> IF r.line > Len(record) THEN Start
                    ELSE [line |-> r.line, choice |-> r.choice],
             pendingToolCalls |-> r.pending,
             responses |-> [k \in 1..Len(r.responses) |-> r.responses[k].value],
             out |-> Pending,
             yielded |-> streams[i].yielded,
             records |-> records]]

StreamResume(i) ==
    /\ streams[i].pc \in {"streaming", "flushed"}
    /\ streams[i].out = Pending
    /\ streams[i].responses = <<>>
    /\ streams[i].chunk # <<>>
    /\ StreamRun(i, streams[i].chunk, streams[i].records, streams[i].at.line,
                 streams[i].at.choice, streams[i].pc)
    /\ UNCHANGED <<single, outside>>

\* the i-th generator is at `await reader.read()`
StreamAwaitsRead(i) ==
    /\ streams[i].pc = "streaming"
    /\ streams[i].out = Pending
    /\ streams[i].responses = <<>>
    /\ streams[i].chunk = <<>>

\* the read of the i-th stream delivers a record
StreamRead(i) ==
    /\ StreamAwaitsRead(i)
    /\ Len(streams[i].records) < MaxStreamRecords
    /\ \E record \in StreamRecords :
        StreamRun(i, record, Append(streams[i].records, record), 1, 1, "streaming")
    /\ UNCHANGED <<single, outside>>

\* the read of the i-th stream reports the end of the data
StreamReadDone(i) ==
    /\ StreamAwaitsRead(i)
    /\ streams' = [streams EXCEPT ![i].pc = "flushed"]
    /\ UNCHANGED <<single, outside>>

StreamYield(i) ==
    /\ streams[i].pc \in {"streaming", "flushed"}
    /\ streams[i].out = Pending
    /\ streams[i].responses # <<>>
    /\ streams' = [streams EXCEPT
            ![i].out = Resolved(Head(streams[i].responses), FALSE),
            ![i].yielded = Append(@, Head(streams[i].responses)),
            ![i].responses = Tail(@)]
    /\ UNCHANGED <<single, outside>>

StreamReturn(i) ==
    /\ streams[i].pc = "flushed"
    /\ streams[i].out = Pending
    /\ streams[i].responses = <<>>
    /\ streams[i].chunk = <<>>
    /\ streams' = [streams EXCEPT ![i].pc = "done",
                                  ![i].out = Resolved(Undefined, TRUE)]
    /\ UNCHANGED <<single, outside>>

NextStreams ==
    \E i \in StreamIds :
        \/ StreamOpen(i)
        \/ StreamPull(i)
        \/ StreamResume(i)
        \/ StreamRead(i)
        \/ StreamReadDone(i)
        \/ StreamYield(i)
        \/ StreamReturn(i)

SpecStreams == Init /\ [][NextStreams]_vars

----------------------------------------------------------------------------
(* The payload of every request *)

\* a request is about to be translated
InitPayload ==
    /\ pc = "idle"
    /\ http = Undefined
    /\ result = NoResult
    /\ error = NoError
    /\ chunk = <<>>
    /\ at = Start
    /\ pendingToolCalls = <<>>
    /\ responses = <<>>
    /\ out = NotCalled
    /\ yielded = NoSource
    /\ nread = 0
    /\ vendor = [calls |-> <<>>, flushed |-> FALSE]
    /\ request \in Requests
    /\ payload = Undefined
    /\ posts = <<>>
    /\ locked = FALSE
    /\ buffered = 0
    /\ streams = [i \in StreamIds |-> NewStream]
    /\ options \in {Options(Undefined, clearThinking) :
                        clearThinking \in {Undefined, Null, Bool(TRUE), Bool(FALSE)}}
    /\ cliConfig = NoCliConfig
    /\ env = NoEnv
    /\ NoSearch
    /\ NoKeys
    /\ NoAuth
    /\ NothingApart

\* toPayload(request, stream)
BuildPayload ==
    /\ payload = Undefined
    /\ \E stream \in BOOLEAN : payload' = ToPayload(request, stream)
    /\ UNCHANGED <<pc, http, result, error, chunk, at, pendingToolCalls, responses, out,
                   yielded, nread, vendor, request, posts, locked, buffered, streams,
                   outside>>

SpecPayload == InitPayload /\ [][BuildPayload]_vars

----------------------------------------------------------------------------
(* The web-search tool (packages/core/src/tools/web-search.ts).  A string  *)
(* the tool builds from a template is a Text whose elements are the        *)
(* literal pieces of the template and the characters of what is            *)
(* interpolated.                                                           *)

DigitChars == <<"0", "1", "2", "3", "4", "5", "6", "7", "8", "9">>

RECURSIVE NumberToString(_)
\* `${n}` for a number n >= 0
NumberToString(n) ==
    IF n < 10 THEN <<DigitChars[n + 1]>>
    ELSE NumberToString(n \div 10) \o <<DigitChars[(n % 10) + 1]>>

DEFAULT_ZAI_CHAT_ENDPOINT ==
    Text(<<"https://api.z.ai/api/coding/paas/v4/chat/completions">>)
\* DEFAULT_GLM_MODEL of web-search.ts
ZAI_DEFAULT_GLM_MODEL == Text(<<"g", "l", "m", "-", "5">>)

\* part.text ?? ''
PartTextOrEmpty(part) == CharsOf(Coalesce(part.text, Text(<<>>)))
HasLength(text) == Len(text) > 0

\* normalizeZaiContent
NormalizeZaiContent(content) ==
    IF ~Truthy(content) THEN <<>>
    ELSE IF content.t = "text" THEN content.cs
    ELSE Concat(SelectSeq(Map(content.a, PartTextOrEmpty), HasLength))

\* a ZaiWebSearchResult
ZaiWebSearchResult(title, link, content) ==
    [title |-> title, link |-> link, content |-> content]

Untitled == Text(<<"Untitled">>)
NoURI == Text(<<"No URI">>)

\* formatZaiSources: the source of a result, and its line `[${index + 1}] ${title} (${uri})`
ZaiSource(hit) == [web |-> [uri |-> hit.link, title |-> hit.title]]
ZaiSourceLine(hit, index) ==
    <<"[">> \o NumberToString(index) \o <<"] ">> \o Or(hit.title, Untitled).cs
            \o <<" (">> \o Or(hit.link, NoURI).cs \o <<")">>

\* formatZaiSources, for results that are an array
FormatZaiSources(results) ==
    IF Len(results) = 0 THEN [sources |-> Undefined, sourcesText |-> <<>>]
    ELSE [sources |-> Arr([i \in 1..Len(results) |-> ZaiSource(results[i])]),
          sourcesText |-> Join([i \in 1..Len(results) |-> ZaiSourceLine(results[i], i)],
                               <<NL>>)]

\* formatZaiFallback without the snippet
ZaiFallbackEntryNoSnippet(hit, index) ==
    <<"[">> \o NumberToString(index) \o <<"] ">> \o Or(hit.title, Untitled).cs
            \o <<NL>> \o Or(hit.link, NoURI).cs

\* formatZaiFallback: `[${index + 1}] ${title}\n${uri}${snippet}`
ZaiFallbackEntry(hit, index) ==
    <<"[">> \o NumberToString(index) \o <<"] ">> \o Or(hit.title, Untitled).cs
            \o <<NL>> \o Or(hit.link, NoURI).cs
            \o (IF Truthy(hit.content) THEN <<NL>> \o hit.content.cs ELSE <<>>)

\* formatZaiFallback
FormatZaiFallback(results) ==
    Join([i \in 1..Len(results) |-> ZaiFallbackEntry(results[i], i)], <<NL, NL>>)

\* mapZaiModel
MapZaiModel(model) ==
    IF ~Truthy(model) THEN ZAI_DEFAULT_GLM_MODEL
    ELSE IF StartsWith(model.cs, <<"g", "l", "m", "-">>) THEN model
    ELSE ZAI_DEFAULT_GLM_MODEL

\* this.params of the invocation
Params == [query |-> Text(<<"q", "?">>)]

GetTitle(web) == web.title
GetUri(web) == web.uri
GetAuthType(contentGeneratorConfig) == contentGeneratorConfig.authType
GetApiKey(contentGeneratorConfig) == contentGeneratorConfig.apiKey

\* isGlmAuth taking every configured content generator for GLM
IsGlmAuthWhenConfigured(cfg) == ~Nullish(cfg.contentGeneratorConfig)

\* isGlmAuth
IsGlmAuth(cfg) == Opt(cfg.contentGeneratorConfig, GetAuthType) = USE_GLM

\* getZaiEndpoint with the environment before the override
GetZaiEndpointEnvFirst(cfg, e) ==
    Or(Or(Or(e.GLM_API_BASE_URL, e.ZAI_API_BASE_URL), cfg.glmEndpoint),
       DEFAULT_ZAI_CHAT_ENDPOINT)

\* getZaiEndpoint
GetZaiEndpoint(cfg, e) ==
    Or(Or(Or(cfg.glmEndpoint, e.GLM_API_BASE_URL), e.ZAI_API_BASE_URL),
       DEFAULT_ZAI_CHAT_ENDPOINT)

\* buildZaiPayload: thinking
ZaiThinking(cfg) ==
    IF ~Truthy(Coalesce(cfg.glmDisableThinking, Bool(FALSE)))
    THEN [type |-> "enabled", clear_thinking |-> Coalesce(cfg.glmClearThinking, Bool(FALSE))]
    ELSE [type |-> "disabled"]

\* buildZaiPayload: the web_search tool definition
ZaiWebSearchToolDefinition ==
    [type |-> "web_search",
     web_search |-> [enable |-> "True", search_engine |-> "search-prime", count |-> "5",
                     search_result |-> "True",
                     search_prompt |-> "Summarize key points from {{search_result}}.",
                     content_size |-> "high", search_recency_filter |-> "noLimit"]]

\* buildZaiPayload
BuildZaiPayload(cfg, params) ==
    [model |-> MapZaiModel(cfg.activeModel),
     messages |-> <<[role |-> "user", content |-> params.query]>>,
     tools |-> <<ZaiWebSearchToolDefinition>>,
     thinking |-> ZaiThinking(cfg)]

\* the ToolResult of a failed search: the catch of execute and of executeZaiSearch
SearchErrorMessage(params, message) ==
    <<"Error during web search for query \"">> \o params.query.cs \o <<"\": ">> \o message
SearchFailed(params, message) ==
    [llmContent |-> Text(<<"Error: ">> \o SearchErrorMessage(params, message)),
     returnDisplay |-> "Error performing web search.",
     sources |-> Undefined,
     error |-> [message |-> Text(SearchErrorMessage(params, message)),
                type |-> "WEB_SEARCH_FAILED"]]

\* the ToolResult when nothing was found
NoInformationFound(params) ==
    [llmContent |-> Text(<<"No search results or information found for query: \"">>
                         \o params.query.cs \o <<"\"">>),
     returnDisplay |-> "No information found.",
     sources |-> Undefined,
     error |-> Undefined]

\* the ToolResult of a search that returned
SearchReturned(params, text, sources) ==
    [llmContent |-> Text(<<"Web search results for \"">> \o params.query.cs
                         \o <<"\":", NL, NL>> \o text),
     returnDisplay |-> Text(<<"Search results for \"">> \o params.query.cs
                            \o <<"\" returned.">>),
     sources |-> sources,
     error |-> Undefined]

\* finalText += `\n\nSources:\n${sourcesText}`, if there is a sourcesText
WithSources(text, sourcesText) ==
    IF sourcesText # <<>> THEN text \o <<NL, NL, "Sources:", NL>> \o sourcesText ELSE text

\* data.choices?.[0]?.message?.content
ZaiContent(data) ==
    IF Nullish(data.choices) \/ Len(data.choices.a) = 0 THEN Undefined
    ELSE Opt(Opt(data.choices.a[1], GetMessage), GetContent)

\* data.web_search ?? []
ZaiResults(data) == IF Nullish(data.web_search) THEN <<>> ELSE data.web_search.a

\* executeZaiSearch without the fallback: nothing found when there is no text
ZaiSearchResultNoFallback(params, finalText, results, formatted) ==
    IF finalText = <<>>
    THEN NoInformationFound(params)
    ELSE SearchReturned(params, WithSources(finalText, formatted.sourcesText),
                        formatted.sources)

\* executeZaiSearch: from the text and the results of the response to the ToolResult
ZaiSearchResult(params, finalText, results, formatted) ==
    IF finalText = <<>>
    THEN IF Len(results) = 0
         THEN NoInformationFound(params)
         ELSE SearchReturned(params,
                             WithSources(FormatZaiFallback(results), formatted.sourcesText),
                             formatted.sources)
    ELSE SearchReturned(params, WithSources(finalText, formatted.sourcesText),
                        formatted.sources)

\* executeZaiSearch: after response.json()
ZaiSearchReturned(params, data) ==
    ZaiSearchResult(params, Trim(NormalizeZaiContent(ZaiContent(data))), ZaiResults(data),
                    FormatZaiSources(ZaiResults(data)))

\* new Error(`ZAI web search request failed (${response.status}): ${text || response.statusText}`)
ZaiRequestFailed(status, text, statusText) ==
    <<"ZAI web search request failed (">> \o NumberToString(status) \o <<"): ">>
        \o (IF text.cs # <<>> THEN text.cs ELSE statusText.cs)

\* executeZaiSearch, once fetch has settled
ZaiSearchOutcome(params, response) ==
    IF response = FetchRejects THEN SearchFailed(params, <<"fetch failed">>)
    ELSE IF ~response.ok
    THEN SearchFailed(params, ZaiRequestFailed(response.status, BodyText(response),
                                               response.statusText))
    ELSE IF response.json = Rejects THEN SearchFailed(params, <<"Unexpected end of JSON input">>)
    ELSE ZaiSearchReturned(params, response.json)

\* executeZaiSearch: `ZAI API key is not configured.` is thrown before anything is sent
ZaiKeyConfigured(cfg) == Truthy(Opt(cfg.contentGeneratorConfig, GetApiKey))

\* execute, under GLM auth: executeZaiSearch, for the responses fetch may resolve with
ExecuteZaiSearch(fetched) ==
    /\ searched = Undefined
    /\ IsGlmAuth(cliConfig)
    /\ IF ~ZaiKeyConfigured(cliConfig)
       THEN /\ searched' = SearchFailed(Params, <<"ZAI API key is not configured.">>)
            /\ UNCHANGED <<posts, http>>
       ELSE \E response \in fetched :
            /\ http' = IF response = FetchRejects THEN Undefined ELSE response
            /\ searched' = ZaiSearchOutcome(Params, response)
            /\ posts' = Fetch(posts, GetZaiEndpoint(cliConfig, env),
                              BuildZaiPayload(cliConfig, Params))
    /\ UNCHANGED <<pc, result, error, chunk, at, pendingToolCalls, responses, out,
                   yielded, nread, vendor, request, payload, locked, buffered, streams,
                   options, cliConfig, env, geminiCalls, storage, keyCall, auth,
                   apart>>

\* execute, under any other auth: the source of a grounding chunk as a line
GeminiSourceLine(source, index) ==
    <<"[">> \o NumberToString(index) \o <<"] ">>
            \o Or(Opt(source.web, GetTitle), Untitled).cs
            \o <<" (">> \o Or(Opt(source.web, GetUri), NoURI).cs \o <<")">>

\* execute: modifiedResponseText, for a response without groundingSupports
GeminiResponseText(responseText, sources) ==
    IF Truthy(sources) /\ Len(sources.a) > 0
    THEN responseText \o <<NL, NL, "Sources:", NL>>
            \o Join([i \in 1..Len(sources.a) |-> GeminiSourceLine(sources.a[i], i)], <<NL>>)
    ELSE responseText

\* execute, once geminiClient.generateContent has settled
GeminiSearchOutcome(params, response) ==
    IF response = Rejects THEN SearchFailed(params, <<"generateContent failed">>)
    ELSE IF ~Truthy(response.text) \/ Trim(response.text.cs) = <<>>
    THEN NoInformationFound(params)
    ELSE SearchReturned(params,
                        GeminiResponseText(response.text.cs, response.groundingChunks),
                        response.groundingChunks)

\* geminiClient.generateContent({model: 'web-search'}, [{role: 'user', parts: [{text}]}])
GeminiCall(params) ==
    [model |-> "web-search",
     contents |-> <<[role |-> "user", parts |-> <<[text |-> params.query]>>]>>]

\* execute, under any other auth, for the responses the Gemini client may resolve with
ExecuteGeminiSearch(generated) ==
    /\ searched = Undefined
    /\ ~IsGlmAuth(cliConfig)
    /\ geminiCalls' = Append(geminiCalls, GeminiCall(Params))
    /\ \E response \in generated : searched' = GeminiSearchOutcome(Params, response)
    /\ UNCHANGED <<pc, http, result, error, chunk, at, pendingToolCalls, responses, out,
                   yielded, nread, vendor, request, payload, posts, locked, buffered,
                   streams, options, cliConfig, env, storage, keyCall, auth,
                   apart>>

----------------------------------------------------------------------------
(* What the search is given *)

MaxHits == 2

ZaiHits ==
    {ZaiWebSearchResult(title, link, content) :
        title \in {Undefined, Text(<<"T">>)},
        link \in {Undefined, Text(<<"U">>)},
        content \in {Undefined, Text(<<"S">>)}}
        \cup {ZaiWebSearchResult(Text(<<>>), Text(<<>>), Text(<<>>))}

ZaiContents ==
    {Undefined, Null, Text(<<>>), Text(<<" ">>), Text(<<" ", "H", "i", " ">>), HiBlocks,
     Arr(<<Block("text", Text(<<" ">>)), Block("text", Undefined)>>)}

\* a ZaiWebSearchResponseChoice
ZaiChoice(message) == [t |-> "object", message |-> message]

ZaiChoices ==
    {Undefined, Arr(<<>>), Arr(<<ZaiChoice(Undefined)>>)}
        \cup {Arr(<<ZaiChoice([t |-> "object", content |-> content])>>) :
                content \in ZaiContents}

\* a ZaiWebSearchResponse
ZaiWebSearchResponse(choices, webSearch) == [choices |-> choices, web_search |-> webSearch]

ZaiWebSearchResponses ==
    {ZaiWebSearchResponse(choices, webSearch) :
        choices \in ZaiChoices,
        webSearch \in {Undefined} \cup {Arr(hits) : hits \in SeqsUpTo(ZaiHits, MaxHits)}}

\* response.json() resolves with the data or rejects
ZaiOk(json) == [ok |-> TRUE, status |-> 200, json |-> json]

\* what fetch may settle with
ZaiResponses ==
    {ZaiOk(data) : data \in ZaiWebSearchResponses} \cup {ZaiOk(Rejects)}
        \cup FailedResponses \cup {FetchRejects}

GroundingChunk(uri, title) == [web |-> [t |-> "object", uri |-> uri, title |-> title]]

\* what geminiClient.generateContent may settle with: the text of the response
\* (getResponseText) and the groundingChunks of its first candidate
GeminiResponses ==
    {[text |-> text, groundingChunks |-> chunks] :
        text \in {Null, Text(<<>>), Text(<<" ">>), Text(<<"H", "i">>)},
        chunks \in {Undefined, Arr(<<>>),
                    Arr(<<GroundingChunk(Text(<<"U">>), Text(<<"T">>)), [web |-> Undefined],
                          GroundingChunk(Undefined, Undefined)>>)}}
        \cup {Rejects}

Key == Text(<<"k">>)

\* the configurations of the search: GLM auth with and without a key, other auths
SearchConfigs ==
    {CliConfig(contentGeneratorConfig, Undefined, Undefined, Undefined, Undefined) :
        contentGeneratorConfig \in
            {Undefined, ContentGeneratorConfig(USE_GLM, Key),
             ContentGeneratorConfig(USE_GLM, Undefined),
             ContentGeneratorConfig(USE_GLM, Text(<<>>)),
             ContentGeneratorConfig(USE_GEMINI, Key),
             ContentGeneratorConfig(LOGIN_WITH_GOOGLE, Undefined)}}

\* one call, not made yet
NoCall ==
    /\ pc = "idle"
    /\ http = Undefined
    /\ result = NoResult
    /\ error = NoError
    /\ chunk = <<>>
    /\ at = Start
    /\ pendingToolCalls = <<>>
    /\ responses = <<>>
    /\ out = NotCalled
    /\ yielded = NoSource
    /\ nread = 0
    /\ vendor = [calls |-> <<>>, flushed |-> FALSE]
    /\ request = Request
    /\ payload = Undefined
    /\ posts = <<>>
    /\ locked = FALSE
    /\ buffered = 0
    /\ streams = [i \in StreamIds |-> NewStream]

InitSearch ==
    /\ NoCall
    /\ options = Options(Undefined, Undefined)
    /\ cliConfig \in SearchConfigs
    /\ env = NoEnv
    /\ NoSearch
    /\ NoKeys
    /\ NoAuth
    /\ NothingApart

\* WebSearchToolInvocation.execute
Execute ==
    \/ ExecuteZaiSearch(ZaiResponses)
    \/ ExecuteGeminiSearch(GeminiResponses)

SpecSearch == InitSearch /\ [][Execute]_vars

----------------------------------------------------------------------------
(* The CLI under a configuration: the chat calls of the generator it       *)
(* constructs and the web search.  The construction of the generator       *)
(* (createContentGenerator, core/contentGenerator.ts) is not among the     *)
(* sources; it is modelled from the specification.                         *)

\* the endpoint the generator is constructed with: the override, else the
\* environment variable, else none (postCompletion then takes the default)
ConfiguredEndpoint(cfg, e) ==
    Or(Or(Or(cfg.glmEndpoint, e.GLM_API_BASE_URL), e.ZAI_API_BASE_URL), Undefined)

\* new GlmContentGenerator({apiKey, userAgent, endpoint, clearThinking, extraHeaders})
CreateGlmOptions(cfg, e) == Options(ConfiguredEndpoint(cfg, e), cfg.glmClearThinking)

\* the chat calls go to the GlmContentGenerator under GLM auth with a key
GlmGeneratorInUse(cfg) == IsGlmAuth(cfg) /\ ZaiKeyConfigured(cfg)

Override == Text(<<"https://override/">>)
GlmApiBaseUrl == Text(<<"https://glm.env/">>)
ZaiApiBaseUrl == Text(<<"https://zai.env/">>)

CliConfigs ==
    {CliConfig(contentGeneratorConfig, glmEndpoint, glmDisableThinking, glmClearThinking,
               activeModel) :
        contentGeneratorConfig \in {ContentGeneratorConfig(USE_GLM, Key),
                                    ContentGeneratorConfig(USE_GLM, Undefined),
                                    ContentGeneratorConfig(USE_GEMINI, Key)},
        glmEndpoint \in {Undefined, Text(<<>>), Override},
        glmDisableThinking \in {Undefined, Bool(TRUE), Bool(FALSE)},
        glmClearThinking \in {Undefined, Bool(TRUE), Bool(FALSE)},
        activeModel \in {Undefined, GlmModel, ForeignModel}}

Envs ==
    {Env(glmApiBaseUrl, zaiApiBaseUrl, Undefined, Undefined, Undefined) :
        glmApiBaseUrl \in {Undefined, Text(<<>>), GlmApiBaseUrl},
        zaiApiBaseUrl \in {Undefined, ZaiApiBaseUrl}}

InitCli ==
    /\ NoCall
    /\ cliConfig \in CliConfigs
    /\ env \in Envs
    /\ options = CreateGlmOptions(cliConfig, env)
    /\ NoSearch
    /\ NoKeys
    /\ NoAuth
    /\ NothingApart

\* what fetch settles with in the calls under a configuration
HiResponse ==
    ChatCompletionResponse(Arr(<<Choice(Message(Text(Hi), Undefined, Undefined),
                                          Str("stop"))>>), Undefined)
ChatFetched == {OkResponse(HiResponse), FetchRejects}
StreamFetched == {[ok |-> TRUE, status |-> 200, json |-> Undefined, body |-> Null],
                  FetchRejects}
SearchFetched ==
    {ZaiOk(ZaiWebSearchResponse(Arr(<<ZaiChoice([t |-> "object", content |-> Text(Hi)])>>),
                                Undefined)),
     FetchRejects}
SearchGenerated == {[text |-> Text(Hi), groundingChunks |-> Undefined], Rejects}

CliGenerateContent == GlmGeneratorInUse(cliConfig) /\ GenerateContentFrom(ChatFetched)

CliGenerateContentStream ==
    GlmGeneratorInUse(cliConfig) /\ GenerateContentStreamFrom(StreamFetched)

CliExecute ==
    \/ ExecuteZaiSearch(SearchFetched)
    \/ ExecuteGeminiSearch(SearchGenerated)

NextCli ==
    \/ CliGenerateContent
    \/ CliGenerateContentStream
    \/ CliExecute

SpecCli == InitCli /\ [][NextCli]_vars

----------------------------------------------------------------------------
(* The API keys (packages/core/src/core/apiKeyCredentialStorage.ts).  The  *)
(* storage is a map from the name of an entry to its OAuthCredentials.  A  *)
(* call of the storage may reject, and it then leaves the storage as it    *)
(* was; failed is the call of the storage that rejects, counted within the *)
(* operation from 1, or 0 when none does.  The updatedAt of the            *)
(* credentials (Date.now()) is not kept.                                   *)

\* OAuthCredentials, and the token saveApiKey wraps a key in
OAuthCredentials(serverName, token) ==
    [t |-> "object", serverName |-> serverName, token |-> token]
ApiKeyToken(apiKey) == [t |-> "object", accessToken |-> apiKey, tokenType |-> "ApiKey"]

GetToken(credentials) == credentials.token
GetAccessToken(token) == token.accessToken

\* credentials?.token?.accessToken
AccessToken(credentials) == Opt(Opt(credentials, GetToken), GetAccessToken)

\* storage.deleteCredentials(entry)
DeleteCredentials(store, entry) == [store EXCEPT ![entry] = Undefined]

\* storage.setCredentials(credentials)
SetCredentials(store, credentials) == [store EXCEPT ![credentials.serverName] = credentials]

\* loadApiKey: the legacy entry, read for every auth type
LegacyForAll(authType) == TRUE

\* loadApiKey: authType === AuthType.USE_GEMINI
IsGeminiAuth(authType) == DefaultAuthType(authType) = USE_GEMINI

\* loadApiKey: the fallback to the legacy entry
LoadedLegacy(store, failed) ==
    IF failed = 2 THEN Null
    ELSE IF Truthy(AccessToken(store[LEGACY_DEFAULT_ENTRY]))
    THEN AccessToken(store[LEGACY_DEFAULT_ENTRY])
    ELSE Null

\* loadApiKey: what it resolves with
Loaded(store, authType, failed) ==
    IF failed = 1 THEN Null
    ELSE IF Truthy(AccessToken(store[GetEntryKey(authType)]))
    THEN AccessToken(store[GetEntryKey(authType)])
    ELSE IF IsGeminiAuth(authType) THEN LoadedLegacy(store, failed)
    ELSE Null

\* saveApiKey and clearApiKey: the try block of the deletions
Cleared(store, authType, failed) ==
    IF failed = 1 THEN store
    ELSE IF IsGeminiAuth(authType) /\ failed # 2
    THEN DeleteCredentials(DeleteCredentials(store, GetEntryKey(authType)),
                           LEGACY_DEFAULT_ENTRY)
    ELSE DeleteCredentials(store, GetEntryKey(authType))

\* saveApiKey: !apiKey only
IsNoKey(apiKey) == ~Truthy(apiKey)

\* saveApiKey: !apiKey || apiKey.trim() === ''
IsBlankKey(apiKey) == ~Truthy(apiKey) \/ Trim(apiKey.cs) = <<>>

\* saveApiKey: the storage it leaves and how it settles
Saved(store, apiKey, authType, failed) ==
    IF IsBlankKey(apiKey)
    THEN [storage |-> Cleared(store, authType, failed), outcome |-> "resolved"]
    ELSE IF failed = 1
    THEN [storage |-> store, outcome |-> "rejected"]
    ELSE [storage |-> SetCredentials(store, OAuthCredentials(GetEntryKey(authType),
                                                             ApiKeyToken(apiKey))),
          outcome |-> "resolved"]

\* a call of one of the three operations
KeyCall(op, apiKey, authType, failed, before, outcome, value) ==
    [op |-> op, apiKey |-> apiKey, authType |-> authType, failed |-> failed,
     before |-> before, outcome |-> outcome, value |-> value]

\* the auth types the operations are called with (none: the default parameter)
AuthArgs == {Undefined, USE_GEMINI, USE_GLM, LOGIN_WITH_GOOGLE}

ApiKeys == {Undefined, Null, Text(<<>>), Text(<<" ">>), Text(<<"k">>), Text(<<"l">>)}

\* the calls leave the generator and the search alone
KeysOnly ==
    UNCHANGED <<pc, http, result, error, chunk, at, pendingToolCalls, responses, out,
                yielded, nread, vendor, request, payload, posts, locked, buffered,
                streams, options, cliConfig, env, searched, geminiCalls, auth,
                apart>>

LoadApiKey ==
    /\ \E authType \in AuthArgs, failed \in 0..2 :
        keyCall' = KeyCall("loadApiKey", Undefined, authType, failed, storage, "resolved",
                           Loaded(storage, authType, failed))
    /\ UNCHANGED storage
    /\ KeysOnly

SaveApiKey ==
    /\ \E apiKey \in ApiKeys, authType \in AuthArgs, failed \in 0..2 :
        \E saved \in {Saved(storage, apiKey, authType, failed)} :
            /\ storage' = saved.storage
            /\ keyCall' = KeyCall("saveApiKey", apiKey, authType, failed, storage,
                                  saved.outcome, Undefined)
    /\ KeysOnly

ClearApiKey ==
    /\ \E authType \in AuthArgs, failed \in 0..2 :
        /\ storage' = Cleared(storage, authType, failed)
        /\ keyCall' = KeyCall("clearApiKey", Undefined, authType, failed, storage,
                              "resolved", Undefined)
    /\ KeysOnly

\* what the storage may hold from before: a legacy default entry, and an entry of
\* the Gemini key whose credentials have no token
LegacyCredentials == OAuthCredentials(LEGACY_DEFAULT_ENTRY, ApiKeyToken(Text(<<"o">>)))
NoTokenCredentials == OAuthCredentials("gemini-api-key", Undefined)

InitKeys ==
    /\ NoCall
    /\ options = Options(Undefined, Undefined)
    /\ cliConfig = NoCliConfig
    /\ env = NoEnv
    /\ NoSearch
    /\ NoAuth
    /\ NothingApart
    /\ keyCall = Undefined
    /\ storage \in {[NoEntries EXCEPT ![LEGACY_DEFAULT_ENTRY] = legacy,
                                      !["gemini-api-key"] = gemini] :
                        legacy \in {Undefined, LegacyCredentials},
                        gemini \in {Undefined, NoTokenCredentials}}

NextKeys ==
    \/ LoadApiKey
    \/ SaveApiKey
    \/ ClearApiKey

SpecKeys == InitKeys /\ [][NextKeys]_vars

----------------------------------------------------------------------------
(* The authentication hook of the CLI: useAuthCommand                      *)

\* enum AuthState, by the names of its members
AuthStates == {"Unauthenticated", "Updating", "Authenticated", "AwaitingApiKeyInput"}

\* the state of the hook as one value
Hook(state, message, defaultValue, keyAuthType, loaded, calls) ==
    [authState |-> state, authError |-> message, apiKeyDefaultValue |-> defaultValue,
     apiKeyAuthType |-> keyAuthType, settings |-> loaded, refreshed |-> calls]

\* the messages of the hook
NoMethodSelected == Text(<<"No authentication method selected.">>)

ExistingKeyDetected ==
    Text(<<"Existing API key detected (GEMINI_API_KEY). ",
           "Select \"Gemini API Key\" option to use it.">>)

EnforcedMessage(enforcedType, authType) ==
    Text(<<"Authentication is enforced to be ", enforcedType.s,
           ", but you are currently using ", authType.s, ".">>)

\* Object.values(AuthType), in the order of the enum
AuthTypeValues ==
    <<LOGIN_WITH_GOOGLE, USE_GEMINI, USE_VERTEX_AI, LEGACY_CLOUD_SHELL, COMPUTE_ADC, USE_GLM>>

RECURSIVE JoinValues(_)
\* Object.values(AuthType).join(', ')
JoinValues(values) ==
    IF values = <<>> THEN <<>>
    ELSE IF Len(values) = 1 THEN <<Head(values).s>>
    ELSE <<Head(values).s, ", ">> \o JoinValues(Tail(values))

InvalidDefaultAuthType(defaultAuthType) ==
    Text(<<"Invalid value for GEMINI_DEFAULT_AUTH_TYPE: \"">> \o defaultAuthType.cs
         \o <<"\". ", "Valid values are: ">> \o JoinValues(AuthTypeValues) \o <<".">>)

FailedToLogin(message) == Text(<<"Failed to login. Message: ">> \o message.cs)

\* Object.values(AuthType).includes(defaultAuthType)
IsAuthTypeValue(defaultAuthType) ==
    \E i \in 1..Len(AuthTypeValues) : defaultAuthType.cs = <<AuthTypeValues[i].s>>

\* getEnvApiKey, reading GEMINI_API_KEY for every auth type
GetEnvApiKeyOfGemini(authType, e) == e.GEMINI_API_KEY

\* getEnvApiKey
GetEnvApiKey(authType, e) ==
    IF authType = USE_GLM THEN Coalesce(e.ZAI_API_KEY, e.ZAI_API_KEY)
    ELSE e.GEMINI_API_KEY

\* validateAuthMethodWithSettings; validated is what validateAuthMethod returns
ValidateAuthMethodWithSettings(authType, loaded, validated) ==
    IF Truthy(loaded.enforcedType) /\ loaded.enforcedType # authType
    THEN EnforcedMessage(loaded.enforcedType, authType)
    ELSE IF Truthy(loaded.useExternal) THEN Null
    ELSE IF authType = USE_GEMINI \/ authType = USE_GLM THEN Null
    ELSE validated

\* onAuthError
OnAuthError(h, message) ==
    [h EXCEPT !.authError = message,
              !.authState = IF Truthy(message) THEN "Updating" ELSE @]

\* reloadApiKey: the key it returns is the default value it sets
ReloadApiKey(h, authType, e, store, failed) ==
    [h EXCEPT !.apiKeyDefaultValue =
                  IF GetEnvApiKey(authType, e) # Undefined THEN GetEnvApiKey(authType, e)
                  ELSE Coalesce(Loaded(store, authType, failed), Text(<<>>)),
              !.apiKeyAuthType = authType]

\* settings.setValue(SettingScope.User, 'security.auth.selectedType', authType), called
\* when no scope selects a type: the user scope's value is the merged one
SetSelectedType(loaded, authType) ==
    [loaded EXCEPT !.userSelectedType = authType, !.selectedType = authType]

\* the effect of useAuthCommand, never selecting GLM auth by itself
NeverAutoSelected(loaded, e) == FALSE

\* the effect of useAuthCommand: GLM auth is selected by the effect itself
AutoSelected(loaded, e) ==
    ~Truthy(loaded.selectedType) /\ Truthy(Or(e.ZAI_API_KEY, e.ZAI_API_KEY))

\* the effect of useAuthCommand: the try block, refreshAuth resolving or rejecting with
\* an error of the given message
RefreshAuth(h, authType, rejected) ==
    IF rejected = Undefined
    THEN [h EXCEPT !.authError = Null, !.authState = "Authenticated",
                   !.refreshed = Append(@, authType)]
    ELSE OnAuthError([h EXCEPT !.refreshed = Append(@, authType)], FailedToLogin(rejected))

\* the effect of useAuthCommand from the validation on
ValidateAndRefresh(h, authType, e, validated, rejected) ==
    IF Truthy(ValidateAuthMethodWithSettings(authType, h.settings, validated))
    THEN OnAuthError(h, ValidateAuthMethodWithSettings(authType, h.settings, validated))
    ELSE IF Truthy(e.GEMINI_DEFAULT_AUTH_TYPE) /\ ~IsAuthTypeValue(e.GEMINI_DEFAULT_AUTH_TYPE)
    THEN OnAuthError(h, InvalidDefaultAuthType(e.GEMINI_DEFAULT_AUTH_TYPE))
    ELSE RefreshAuth(h, authType, rejected)

\* the effect of useAuthCommand once an auth type is at hand
AuthenticateWith(h, authType, e, store, failed, validated, rejected) ==
    IF authType = USE_GEMINI \/ authType = USE_GLM
    THEN IF ~Truthy(ReloadApiKey(h, authType, e, store, failed).apiKeyDefaultValue)
         THEN [ReloadApiKey(h, authType, e, store, failed)
                   EXCEPT !.authState = "AwaitingApiKeyInput"]
         ELSE ValidateAndRefresh(ReloadApiKey(h, authType, e, store, failed), authType, e,
                                 validated, rejected)
    ELSE ValidateAndRefresh(h, authType, e, validated, rejected)

\* the effect of useAuthCommand in the state Unauthenticated
UseAuthEffect(h, e, store, failed, validated, rejected) ==
    IF AutoSelected(h.settings, e)
    THEN AuthenticateWith([h EXCEPT !.settings = SetSelectedType(@, USE_GLM)], USE_GLM, e,
                          store, failed, validated, rejected)
    ELSE IF ~Truthy(h.settings.selectedType)
    THEN OnAuthError(h, IF Truthy(e.GEMINI_API_KEY) THEN ExistingKeyDetected
                        ELSE NoMethodSelected)
    ELSE AuthenticateWith(h, h.settings.selectedType, e, store, failed, validated, rejected)

\* the hook's state is the given one; the generator, the search and the keys are left
\* alone
HookBecomes(h) ==
    /\ authState' = h.authState
    /\ authError' = h.authError
    /\ apiKeyDefaultValue' = h.apiKeyDefaultValue
    /\ apiKeyAuthType' = h.apiKeyAuthType
    /\ settings' = h.settings
    /\ refreshed' = h.refreshed
    /\ UNCHANGED <<single, streams, options, cliConfig, env, searched, geminiCalls,
                   storage, keyCall, apart>>

TheHook == Hook(authState, authError, apiKeyDefaultValue, apiKeyAuthType, settings, refreshed)

\* what validateAuthMethod may return, and what refreshAuth may reject with
Validations == {Null, Text(<<"invalid">>)}
Rejections == {Undefined, Text(<<"denied">>)}

\* the effect that authenticates
AuthEffect ==
    /\ authState = "Unauthenticated"
    /\ \E failed \in 0..1, validated \in Validations, rejected \in Rejections :
        HookBecomes(UseAuthEffect(TheHook, env, storage, failed, validated, rejected))

\* the effect that reloads the key the input is awaited for
AwaitingEffect ==
    /\ authState = "AwaitingApiKeyInput"
    /\ \E failed \in 0..1 :
        HookBecomes(ReloadApiKey(TheHook, Coalesce(settings.selectedType, USE_GLM), env,
                                 storage, failed))

\* the settings and the environment the hook may start in
SelectedTypes == {Undefined, USE_GLM, USE_GEMINI, LOGIN_WITH_GOOGLE}
EnforcedTypes == {Undefined, USE_GLM, USE_GEMINI}
AuthEnvs ==
    {Env(Undefined, Undefined, zaiApiKey, geminiApiKey, geminiDefaultAuthType) :
        zaiApiKey \in {Undefined, Text(<<>>), Key},
        geminiApiKey \in {Undefined, Text(<<"g">>)},
        geminiDefaultAuthType \in {Undefined, Text(<<"glm-api-key">>), Text(<<"bogus">>)}}

StoredKeys ==
    {[NoEntries EXCEPT !["glm-api-key"] = glm, !["gemini-api-key"] = gemini] :
        glm \in {Undefined, OAuthCredentials("glm-api-key", ApiKeyToken(Text(<<"s">>)))},
        gemini \in {Undefined, OAuthCredentials("gemini-api-key", ApiKeyToken(Text(<<"t">>)))}}

InitAuth ==
    /\ NoCall
    /\ options = Options(Undefined, Undefined)
    /\ cliConfig = NoCliConfig
    /\ env \in AuthEnvs
    /\ NoSearch
    /\ keyCall = Undefined
    /\ storage \in StoredKeys
    /\ authState = "Unauthenticated"
    /\ authError = Null
    /\ apiKeyDefaultValue = Undefined
    /\ apiKeyAuthType = USE_GEMINI
    /\ settings \in {Settings(selectedType, enforcedType, useExternal, Undefined) :
                        selectedType \in SelectedTypes, enforcedType \in EnforcedTypes,
                        useExternal \in {Undefined, Bool(TRUE)}}
    /\ refreshed = <<>>
    /\ NothingApart

NextAuth ==
    \/ AuthEffect
    \/ AwaitingEffect

SpecAuth == InitAuth /\ [][NextAuth]_vars

----------------------------------------------------------------------------
(* The aggregator on one chunk: chunkToResponses resumed until it returns  *)

\* the responses the generator yields from its r on, and the map it leaves
DrainedFrom(r, rest) ==
    [values |-> r.responses \o rest.values, pending |-> rest.pending]

RECURSIVE DrainChunk(_, _, _, _)
\* for (const choice of chunk.choices ?? []) to its end: after the responses of a
\* choice the generator goes on with the next choice
DrainChunkOn(r, sseJson, model) ==
    IF r.responses = <<>> THEN [values |-> <<>>, pending |-> r.pending]
    ELSE DrainedFrom(r, DrainChunk(sseJson, r.choice, model, r.pending))

\* chunkToResponses from its j-th choice on, every response taken; each response is
\* kept with the index of its choice
DrainChunk(sseJson, j, model, pending) ==
    DrainChunkOn(ChunkToResponses(sseJson, j, model, pending), sseJson, model)

\* what is kept of one run: the chunk, the map the run found, what it yielded
Consumed(sseJson, before, values) ==
    [t |-> "object", chunk |-> sseJson, before |-> before, values |-> values]

\* chunkToResponses(chunk, model, pendingToolCalls), run to its end on one of the
\* given chunks
ConsumeChunk(chunks) ==
    /\ consumed = Undefined
    /\ \E sseJson \in chunks :
        \E r \in {DrainChunk(sseJson, 1, StreamModel, pendingToolCalls)} :
            /\ consumed' = Consumed(sseJson, pendingToolCalls, r.values)
            /\ pendingToolCalls' = r.pending
    /\ UNCHANGED <<pc, http, result, error, chunk, at, responses, out, yielded, nread,
                   vendor, request, payload, posts, locked, buffered, streams, options,
                   cliConfig, env, searched, geminiCalls, storage, keyCall, auth,
                   received, undecoded, buffer, sseChunks, ended>>

\* the tool-call deltas the chunks carry: with and without id, with and without
\* name, with and without an argument fragment
ToolCallDeltas ==
    {ToolCall(id, name, arguments) :
        id \in {Undefined, CallIds[1], CallIds[2]},
        name \in {Undefined, CallNames[1], CallNames[2]},
        arguments \in {Undefined, Text(<<"{">>)}}

\* a chunk of one choice with the given deltas
DeltaChunk(content, deltas, finishReason, usage) ==
    SseJson(Arr(<<ChunkChoice(Delta(content, Undefined, Arr(deltas)), finishReason)>>),
            usage, Str("glm-4.7"))

\* two deltas of one choice: of one call, of two calls, and one found under the
\* name of the other
DeltaPairs ==
    {<<ToolCall(CallIds[1], CallNames[1], Text(<<"{">>)),
       ToolCall(CallIds[1], Undefined, Text(<<"}">>))>>,
     <<ToolCall(CallIds[1], CallNames[1], Text(<<"{">>)),
       ToolCall(CallIds[2], CallNames[2], Text(<<"{", "}">>))>>,
     <<ToolCall(Undefined, CallNames[1], Text(<<"{">>)),
       ToolCall(Undefined, Undefined, Text(<<"}">>))>>}

\* chunks of two choices, each with deltas of its own
TwoChoiceChunks ==
    {SseJson(Arr(<<ChunkChoice(Delta(Text(Hi), Undefined,
                                     Arr(<<ToolCall(CallIds[1], CallNames[1],
                                                    Text(ArgObject))>>)), first),
                   ChunkChoice(Delta(content, Undefined, toolCalls), second)>>),
             StreamUsage, Str("glm-4.7")) :
        first \in {Null, Str("stop")},
        content \in {Undefined, Text(Hi)},
        toolCalls \in {Undefined,
                       Arr(<<ToolCall(CallIds[2], CallNames[2], Text(ArgObject))>>)},
        second \in {Null, Str("stop"), Str("sensitive")}}

AggregatorChunks ==
    ContentChunks
    \cup {DeltaChunk(Undefined, <<call>>, finishReason, Undefined) :
            call \in ToolCallDeltas,
            finishReason \in {Null, Str("stop"), Str("length"), Str("content_filter"),
                              Str("sensitive")}}
    \cup {DeltaChunk(content, deltas, finishReason, StreamUsage) :
            content \in {Undefined, Text(Hi)},
            deltas \in DeltaPairs \cup {<<>>},
            finishReason \in {Null, Str("tool_calls")}}
    \cup TwoChoiceChunks

\* the entries a stream may have pending when the chunk arrives
PendingEntries ==
    {[id |-> id, name |-> name, args |-> args] :
        id \in {CallIds[1], CallNames[1], Str("tool")},
        name \in {CallNames[1], CallNames[2]},
        args \in {<<>>, <<"{">>}}

\* the maps of up to two entries: a map has one entry per id
PendingMaps ==
    {<<>>}
    \cup {<<entry>> : entry \in PendingEntries}
    \cup {pair \in {<<first, second>> : first \in PendingEntries,
                                         second \in PendingEntries} :
                pair[1].id # pair[2].id}

InitChunks ==
    /\ pc = "idle"
    /\ http = Undefined
    /\ result = NoResult
    /\ error = NoError
    /\ chunk = <<>>
    /\ at = Start
    /\ pendingToolCalls \in PendingMaps
    /\ responses = <<>>
    /\ out = NotCalled
    /\ yielded = NoSource
    /\ nread = 0
    /\ vendor = [calls |-> <<>>, flushed |-> FALSE]
    /\ request = Request
    /\ payload = Undefined
    /\ posts = <<>>
    /\ locked = FALSE
    /\ buffered = 0
    /\ streams = [i \in StreamIds |-> NewStream]
    /\ options = Options(Undefined, Undefined)
    /\ cliConfig = NoCliConfig
    /\ env = NoEnv
    /\ NoSearch
    /\ NoKeys
    /\ NoAuth
    /\ NothingApart

NextChunks == ConsumeChunk(AggregatorChunks)

SpecChunks == InitChunks /\ [][NextChunks]_vars

----------------------------------------------------------------------------
(* The decoder of the body: streamFromSSE on the bytes reader.read()       *)
(* delivers.  A byte is a one-character string: the newline, the space,    *)
(* the two bytes of a two-byte character, or one of the line tokens, which *)
(* stand for the bytes of a whole line "data: " followed by a JSON         *)
(* document.                                                               *)

\* the bytes of a two-byte UTF-8 character, the character they encode, and the
\* replacement character of a malformed sequence
LeadByte == "0xC3"
ContinuationByte == "0xA9"
TwoByteCharacter == "U+00E9"
ReplacementCharacter == "U+FFFD"

\* the lines "data: " + the JSON of HiChunk and of StopChunk, and "data: [DONE]"
HiLine == "data: <HiChunk>"
StopLine == "data: <StopChunk>"
DoneLine == "data: [DONE]"
LineTokens == {HiLine, StopLine, DoneLine}

WireBytes == {NL, " ", LeadByte, ContinuationByte} \cup LineTokens

\* the text decoded so far, followed by the rest
Decoded(cs, rest) == [text |-> cs \o rest.text, held |-> rest.held]

RECURSIVE Utf8Decode(_, _)
\* the UTF-8 decoder: held is the lead byte of a character whose continuation has
\* not arrived; a lead byte not followed by a continuation byte, and a continuation
\* byte without a lead, decode to the replacement character
Utf8Decode(held, value) ==
    IF value = <<>> THEN [text |-> <<>>, held |-> held]
    ELSE IF held # <<>>
    THEN IF Head(value) = ContinuationByte
         THEN Decoded(<<TwoByteCharacter>>, Utf8Decode(<<>>, Tail(value)))
         ELSE Decoded(<<ReplacementCharacter>>, Utf8Decode(<<>>, value))
    ELSE IF Head(value) = LeadByte THEN Utf8Decode(<<LeadByte>>, Tail(value))
    ELSE IF Head(value) = ContinuationByte
    THEN Decoded(<<ReplacementCharacter>>, Utf8Decode(<<>>, Tail(value)))
    ELSE Decoded(<<Head(value)>>, Utf8Decode(<<>>, Tail(value)))

\* the end of the input flushed: an incomplete character is replaced
Flushed(r) ==
    [text |-> r.text \o (IF r.held # <<>> THEN <<ReplacementCharacter>> ELSE <<>>),
     held |-> <<>>]

\* decoder.decode(value) without {stream: true}: nothing is held back
DecodeNoStream(held, value) == Flushed(Utf8Decode(<<>>, value))

\* decoder.decode(value, {stream: true})
DecodeStream(held, value) == Utf8Decode(held, value)

\* buffer.indexOf('\n\n'), from 1; 0 for -1
IndexOfBoundary(cs) ==
    IF \E i \in 1..(Len(cs) - 1) : cs[i] = NL /\ cs[i + 1] = NL
    THEN CHOOSE i \in 1..(Len(cs) - 1) :
            /\ cs[i] = NL /\ cs[i + 1] = NL
            /\ \A k \in 1..(i - 1) : ~(cs[k] = NL /\ cs[k + 1] = NL)
    ELSE 0

\* a record cut, followed by the records of the rest
CutThen(record, rest) == [records |-> <<record>> \o rest.records, buffer |-> rest.buffer]

RECURSIVE CutRecords(_)
\* the boundary loop: the records cut from the buffer, and what is left of it
CutAt(cs, boundary) ==
    IF boundary = 0 THEN [records |-> <<>>, buffer |-> cs]
    ELSE CutThen(SubSeq(cs, 1, boundary - 1),
                 CutRecords(SubSeq(cs, boundary + 2, Len(cs))))
CutRecords(cs) == CutAt(cs, IndexOfBoundary(cs))

\* buffer.trim().length > 0
NotBlank(cs) == \E i \in 1..Len(cs) : cs[i] \notin {NL, " "}

\* the remainder is never processed
RemainderDropped(chunks, remainder) == chunks

\* after the loop: if (buffer.trim().length > 0) processSseChunk(buffer, ...)
RemainderProcessed(chunks, remainder) ==
    IF NotBlank(remainder) THEN Append(chunks, remainder) ELSE chunks

\* the most bytes a body has
MaxBytes == 4

RECURSIVE BytesOf(_)
\* the bytes of the values read so far, in order
BytesOf(values) ==
    IF values = <<>> THEN <<>> ELSE Head(values) \o BytesOf(Tail(values))

\* the values of up to n bytes
RECURSIVE ValuesUpTo(_)
ValuesUpTo(n) ==
    IF n = 0 THEN {<<>>}
    ELSE ValuesUpTo(n - 1)
         \cup {Append(value, byte) : value \in {v \in ValuesUpTo(n - 1) : Len(v) = n - 1},
                                     byte \in WireBytes}

\* the decoder leaves the generator of a call, the search, the keys and the hook
\* alone
DecoderOnly ==
    UNCHANGED <<single, streams, options, cliConfig, env, searched, geminiCalls, storage,
                keyCall, auth, consumed>>

\* reader.read() resolves with a value: it is decoded and appended to the buffer,
\* and the boundary loop hands every complete record to processSseChunk
ReadValue ==
    /\ ~ended
    /\ Len(BytesOf(received)) < MaxBytes
    /\ \E value \in ValuesUpTo(MaxBytes - Len(BytesOf(received))) \ {<<>>} :
        \E decoded \in {DecodeStream(undecoded, value)} :
            \E cut \in {CutRecords(buffer \o decoded.text)} :
                /\ received' = Append(received, value)
                /\ undecoded' = decoded.held
                /\ buffer' = cut.buffer
                /\ sseChunks' = sseChunks \o cut.records
    /\ UNCHANGED ended
    /\ DecoderOnly

\* reader.read() resolves with done: the loop is left and what remains in the
\* buffer is processed if it is not blank
EndOfData ==
    /\ ~ended
    /\ ended' = TRUE
    /\ sseChunks' = RemainderProcessed(sseChunks, buffer)
    /\ UNCHANGED <<received, undecoded, buffer>>
    /\ DecoderOnly

InitBytes ==
    /\ NoCall
    /\ options = Options(Undefined, Undefined)
    /\ cliConfig = NoCliConfig
    /\ env = NoEnv
    /\ NoSearch
    /\ NoKeys
    /\ NoAuth
    /\ NothingApart

NextBytes ==
    \/ ReadValue
    \/ EndOfData

SpecBytes == InitBytes /\ [][NextBytes]_vars

----------------------------------------------------------------------------
(* The claims.  What generateContent returned is compared with the body of *)
(* the HTTP response in hand, and a yielded fragment with the chunk it     *)
(* comes from.                                                             *)

\* generateContent has returned the translation of http.json
Returned == pc = "returned"
ReturnedChoice == http.json.choices.a[1]
ReturnedMessage == Opt(ReturnedChoice, GetMessage)
ReturnedToolCalls == Coalesce(Opt(ReturnedMessage, GetToolCalls), Arr(<<>>)).a
ReturnedParts == result.candidates[1].content.parts

\* the latest next() resolved with a fragment, which comes from YieldedChoice of
\* YieldedChunk
YieldedFragment == out.state = "resolved" /\ ~out.done
YieldedChunk == chunk[yielded.line].json
YieldedChoice == YieldedChunk.choices.a[yielded.choice]

One(cs) == IF Len(cs) > 0 THEN 1 ELSE 0

PartsAsClaimed(parts, reasoning, text, calls) ==
    /\ Len(parts) = One(reasoning) + One(text) + Len(calls)
    /\ One(reasoning) = 1 => parts[1] = [text |-> Text(reasoning), thought |-> TRUE]
    /\ One(text) = 1 => parts[One(reasoning) + 1] = [text |-> Text(text)]
    /\ \A k \in 1..Len(calls) :
        LET part == parts[One(reasoning) + One(text) + k]
        IN  /\ DOMAIN part = {"functionCall"}
            /\ part.functionCall.id = calls[k].id
            /\ part.functionCall.name = FunctionName(calls[k])

\* C1: for a non-streaming response with at least one choice, generateContent
\* returns one candidate whose parts are, in this order, a Thought part with the
\* reasoning text if it is not empty, a Text part with the message text if it is
\* not empty, and one FunctionCall part per vendor tool call in the vendor's
\* order, and nothing else.
C1_PartsInOrder ==
    Returned =>
        /\ Len(result.candidates) = 1
        /\ PartsAsClaimed(ReturnedParts,
                          NormalizeReasoningText(Opt(ReturnedMessage, GetReasoningContent)),
                          NormalizeContentText(Opt(ReturnedMessage, GetContent)),
                          ReturnedToolCalls)

\* a response with a thought, a text and two function calls was returned
C1_Witness ==
    /\ Returned
    /\ Len(ReturnedParts) = 4
    /\ Len(ReturnedToolCalls) = 2
    /\ ReturnedParts[1] = ThoughtPart(Thinking)
    /\ ReturnedParts[2] = TextPart(Hi)

\* generateContent has ended, and fetch had resolved with a 2xx response
NonStreamingOk == pc \in {"returned", "threw"} /\ http # Undefined /\ http.ok /\ http.json # Undefined

\* C6: generateContent throws an error whose message identifies "no choices",
\* and returns no response, whenever the non-streaming response has an absent or
\* empty choices list.
C6_NoChoicesThrows ==
    (/\ NonStreamingOk
     /\ \/ Nullish(http.json.choices)
        \/ Len(http.json.choices.a) = 0)
    => /\ pc = "threw"
       /\ error.message = "GLM API returned no choices"
       /\ result = NoResult

\* the choices list was empty and generateContent threw
C6_Witness ==
    /\ NonStreamingOk
    /\ http.json.choices = Arr(<<>>)
    /\ pc = "threw"
    /\ error = NoChoices

UsageAsClaimed(usage, metadata) ==
    IF Nullish(usage) THEN metadata = Undefined
    ELSE /\ metadata.promptTokenCount = usage.prompt_tokens
         /\ metadata.candidatesTokenCount = usage.completion_tokens
         /\ metadata.totalTokenCount = usage.total_tokens
         /\ metadata.thoughtsTokenCount =
                IF ~Nullish(usage.reasoning_tokens) THEN usage.reasoning_tokens
                ELSE IF ~Nullish(usage.completion_tokens_details)
                THEN usage.completion_tokens_details.reasoning_tokens
                ELSE Undefined

\* C8: usage normalization maps prompt_tokens, completion_tokens and total_tokens
\* to promptTokenCount, candidatesTokenCount and totalTokenCount; thoughtsTokenCount
\* is the flat reasoning_tokens when present, otherwise the one of
\* completion_tokens_details, and unset when neither is present; an absent usage
\* gives absent usage metadata.  Stated of the response generateContent returns and
\* of every yielded fragment.
C8_UsageNormalized ==
    /\ Returned => UsageAsClaimed(http.json.usage, result.usageMetadata)
    /\ YieldedFragment => UsageAsClaimed(YieldedChunk.usage, out.value.usageMetadata)

\* a usage with flat reasoning_tokens 0 and nested reasoning_tokens 2 was normalized
C8_Witness ==
    /\ Returned
    /\ http.json.usage = Usage(Num(10), Num(5), Num(15), Num(0), Details(Num(2)))
    /\ result.usageMetadata.thoughtsTokenCount = Num(0)

FinishReasonAsClaimed(reason, finishReason) ==
    finishReason =
        CASE reason = Str("stop") -> Str("STOP")
          [] reason = Str("length") -> Str("MAX_TOKENS")
          [] reason = Str("content_filter") -> Str("SAFETY")
          [] reason = Str("tool_calls") -> Str("STOP")
          [] OTHER -> Undefined

\* C9: stop maps to STOP, length to MAX_TOKENS, content_filter to SAFETY,
\* tool_calls to STOP, and every other value, null or absent to unset, in the
\* response generateContent returns and in every fragment of a stream alike.
C9_FinishReasonTable ==
    /\ Returned =>
        /\ ReturnedChoice.finish_reason \in FinishReasons
        /\ FinishReasonAsClaimed(ReturnedChoice.finish_reason,
                                 result.candidates[1].finishReason)
    /\ YieldedFragment =>
        FinishReasonAsClaimed(YieldedChoice.finish_reason,
                              out.value.candidates[1].finishReason)

\* a fragment of a chunk whose finish reason is tool_calls was yielded with STOP
C9_Witness ==
    /\ YieldedFragment
    /\ YieldedChoice.finish_reason = Str("tool_calls")
    /\ out.value.candidates[1].finishReason = Str("STOP")

\* the function calls of the function-call parts among parts, in order
FunctionCallParts(parts) == Map(SelectSeq(parts, IsFunctionCallPart), PartFunctionCall)

Mirrors(response) ==
    /\ Len(response.candidates) = 1
    /\ response.functionCalls.a = FunctionCallParts(response.candidates[1].content.parts)

\* C10: in every canonical response that carries functionCalls, the non-streaming
\* response and each tool-call-completion fragment of a stream, functionCalls
\* equals, element for element and in the same order, the function-call parts of
\* the response's single candidate.
C10_FunctionCallsMirrorParts ==
    /\ Returned => Mirrors(result)
    /\ (YieldedFragment /\ out.value.functionCalls # Undefined) => Mirrors(out.value)

\* a tool-call-completion fragment with two function calls was yielded
C10_Witness ==
    /\ YieldedFragment
    /\ out.value.functionCalls # Undefined
    /\ Len(out.value.functionCalls.a) = 2
    /\ Len(out.value.candidates[1].content.parts) = 2

\* the argument string of a vendor tool call of a non-streaming response; an
\* absent one counts as empty
ArgumentString(call) == CharsOf(Coalesce(FunctionArguments(call), Text(<<>>)))

\* the original statement: {raw: s} for every string s that is not valid JSON
ArgsAsClaimed(s, args) ==
    IF JsonParse(s).ok THEN args = JsonValue(JsonParse(s).val) ELSE args = RawObject(s)

\* {} for the empty string, {raw: s} for every other string s that is not valid
\* JSON, the parsed value otherwise
ArgsAsAmended(s, args) ==
    IF s = <<>> THEN args = EmptyObject ELSE ArgsAsClaimed(s, args)

\* generateContent returns in this step
Returns1 == pc = "idle" /\ pc' = "returned"
\* a choice is processed in this step and has responses
Responds == pc \in {"streaming", "flushed"} /\ responses = <<>> /\ responses' # <<>>
\* the pending entries at the end of that choice's tool-call deltas
Accumulated ==
    ChoiceAccumulated(chunk'[responses'[1].src.line].json.choices.a[responses'[1].src.choice],
                      pendingToolCalls)
IsFlush(response) == response.value.functionCalls # Undefined

\* neither the response nor the stream fails, unless the transport does
NoFailure ==
    /\ (pc = "idle" /\ http' # Undefined /\ http'.ok /\ http'.json # Undefined
        /\ ~Nullish(http'.json.choices) /\ http'.json.choices.a # <<>>)
       => pc' = "returned"
    /\ pc \in {"streaming", "flushed"} =>
        \/ pc' \in {"streaming", "flushed", "done", "closed"}
        \/ error' = ReadFailed

\* C7 as stated: a tool call whose argument string is not valid JSON never fails
\* the response or the stream, and in the non-streaming translator and in the
\* streaming flush alike its args become {raw: <the original string>}.
C7_RawForEveryInvalidString ==
    [][/\ NoFailure
       /\ Returns1 =>
            \A k \in 1..Len(ReturnedToolCalls') :
                FunctionArguments(ReturnedToolCalls'[k]) # Undefined =>
                    ArgsAsClaimed(ArgumentString(ReturnedToolCalls'[k]),
                                  result'.functionCalls.a[k].args)
       /\ Responds =>
            \A i \in 1..Len(responses') :
                IsFlush(responses'[i]) =>
                    /\ Len(responses'[i].value.functionCalls.a) = Len(Accumulated)
                    /\ \A k \in 1..Len(Accumulated) :
                        ArgsAsClaimed(Accumulated[k].args,
                                      responses'[i].value.functionCalls.a[k].args)]_vars

\* C7, amended: a tool call whose argument string is not empty and not valid JSON
\* never fails the response or the stream, and in the non-streaming translator and
\* in the streaming flush alike its args become {raw: <the original string>}; an
\* empty or absent argument string gives the empty object {}.
C7_RawForNonEmptyInvalidString ==
    [][/\ NoFailure
       /\ Returns1 =>
            \A k \in 1..Len(ReturnedToolCalls') :
                ArgsAsAmended(ArgumentString(ReturnedToolCalls'[k]),
                              result'.functionCalls.a[k].args)
       /\ Responds =>
            \A i \in 1..Len(responses') :
                IsFlush(responses'[i]) =>
                    /\ Len(responses'[i].value.functionCalls.a) = Len(Accumulated)
                    /\ \A k \in 1..Len(Accumulated) :
                        ArgsAsAmended(Accumulated[k].args,
                                      responses'[i].value.functionCalls.a[k].args)]_vars

\* a flush yielded a single function call with the args {raw: "{x"}
C7_Witness ==
    /\ YieldedFragment
    /\ out.value.functionCalls # Undefined
    /\ out.value.functionCalls.a[1].args = RawObject(ArgBrace)
    /\ Len(out.value.candidates[1].content.parts) = 1

\* a is no later than b: by record, then by line, then by choice
SrcLeq(a, b) ==
    \/ a.rec < b.rec
    \/ a.rec = b.rec /\ a.line < b.line
    \/ a.rec = b.rec /\ a.line = b.line /\ a.choice <= b.choice

\* a tool-call-completion fragment
IsCompletion(fragment) == fragment.functionCalls # Undefined

\* the consumer's next() resolves with a fragment in this step
Yields == out = Pending /\ out'.state = "resolved" /\ ~out'.done

WholeCall(call) ==
    [id |-> Coalesce(call.id, call.name),
     name |-> call.name,
     args |-> ParseArguments(Text(call.args))]

\* C3: for a streamed tool call whose argument string is cut into fragments
\* delivered as tool-call deltas over several chunks, the last one with a terminal
\* finish reason, the function call emitted at flush equals the one produced when
\* the whole string arrives in one single delta, whether or not the continuation
\* deltas repeat the call's id and name.
C3_SplitEqualsWhole ==
    \A i \in 1..Len(responses) :
        (/\ IsCompletion(responses[i].value)
         /\ vendor.flushed
         /\ AllComplete(vendor.calls))
        => responses[i].value.functionCalls.a = Map(vendor.calls, WholeCall)

\* C4: no received tool call is lost.  When the generator finishes, every
\* tool-call delta consumed has been flushed into a tool-call-completion
\* fragment, so no entry is left pending, whatever finish reason (or none) the
\* stream ended with.
C4_NothingPendingAtEnd == pc = "done" => pendingToolCalls = <<>>

\* a line whose data payload is not valid JSON
Malformed(line) ==
    /\ line.t = "text"
    /\ StartsWith(Trim(line.cs), DATA)
    /\ LET data == Trim(SubSeq(Trim(line.cs), Len(DATA) + 1, Len(Trim(line.cs))))
       IN  data # <<>> /\ data # DONE /\ ~JsonParse(data).ok
WellFormed(line) == ~Malformed(line)

RECURSIVE Drain(_, _, _, _)
\* every fragment of the record, the generator being resumed until the record ends
DrainOn(r, record, pending) ==
    IF r.error # NoError \/ r.line > Len(record)
    THEN [values |-> <<>>, pending |-> r.pending, error |-> r.error]
    ELSE LET rest == Drain(record, r.line, r.choice, r.pending)
         IN  [values |-> [k \in 1..Len(r.responses) |-> r.responses[k].value]
                         \o rest.values,
              pending |-> rest.pending, error |-> rest.error]
Drain(record, i, j, pending) ==
    DrainOn(ProcessSseChunk(record, i, j, StreamModel, pending), record, pending)


\* what the record gave is what the record without its malformed lines gives
SkippedIn(record, given, wellFormed) ==
    /\ given.error = NoError
    /\ given = wellFormed
    /\ (\A k \in 1..Len(record) : Malformed(record[k]))
       => /\ given.values = <<>>
          /\ given.pending = pendingToolCalls

\* C5: an SSE data payload that is not valid JSON produces no fragment and no
\* error.  Whatever record the generator reads next, processing it throws
\* nothing, and gives the fragments and leaves the pending tool calls that the
\* record without its malformed lines gives and leaves: none and unchanged if the
\* record has no other line.
C5_MalformedPayloadSkipped ==
    AwaitsRead =>
        \A m \in RecordMoves(vendor) :
            SkippedIn(m.record, Drain(m.record, 1, 1, pendingToolCalls),
                      Drain(SelectSeq(m.record, WellFormed), 1, 1, pendingToolCalls))

\* the stream went on: the line that follows a malformed payload in the third
\* record yielded its fragment
C5_Witness ==
    /\ YieldedFragment
    /\ nread = 3
    /\ Malformed(chunk[1])
    /\ yielded.line = 2
    /\ pc = "streaming"
    /\ out.value.candidates[1].content.parts = <<TextPart(Hi)>>

----------------------------------------------------------------------------
(* The transport: errors of the HTTP exchange *)

\* the call threw for a response that is not 2xx
HttpFailed == pc = "threw" /\ http # Undefined /\ ~http.ok

\* what response.text() gave, the empty string when it rejected
ReadableText == IF http.text = Rejects THEN Text(<<>>) ELSE http.text

IsHttpError == error.t = "error" /\ error.message = "GLM API request failed"

(* C11, as the specification states it: for a response that is not 2xx,      *)
(* generateContent and generateContentStream throw one error that carries    *)
(* the HTTP status and the text of the body, and when reading the body fails *)
(* the detail of the error is the empty string.                              *)
C11_EmptyDetailWhenBodyUnreadable ==
    HttpFailed =>
        /\ IsHttpError
        /\ error.status = http.status
        /\ error.detail = ReadableText

(* C11, as the code has it: for a response that is not 2xx both operations   *)
(* throw one error that carries the HTTP status and the text of the body     *)
(* when that text is not empty; when the body is empty or reading it fails,  *)
(* the failure is swallowed and the detail is the status text of the         *)
(* response, which is empty only when the response has no status text.       *)
C11_StatusTextWhenNoBodyText ==
    HttpFailed =>
        /\ IsHttpError
        /\ error.status = http.status
        /\ error.detail = IF ReadableText.cs # <<>> THEN ReadableText ELSE http.statusText

\* reading the body of a failed response failed, and the error names the status
C11_Witness ==
    /\ HttpFailed
    /\ http.text = Rejects
    /\ http.statusText.cs # <<>>
    /\ error.status = 429
    /\ error.detail = http.statusText

\* generateContentStream was called and fetch() resolved with a response
StreamCalled == pc # "idle" /\ posts # <<>> /\ payload.stream /\ http # Undefined

(* C12: generateContentStream throws the 'missing body' error, which is not  *)
(* the HTTP-status error, exactly when a 2xx response has no readable body;  *)
(* it is thrown by the call itself, before a generator exists and before     *)
(* anything is read or yielded, and a response that is not 2xx is reported   *)
(* as the HTTP error whether or not it has a body.                           *)
C12_MissingBody ==
    /\ (StreamCalled /\ http.ok /\ Nullish(http.body)) =>
            /\ pc = "threw"
            /\ error = NoBody
            /\ ~IsHttpError
            /\ out = NotCalled /\ nread = 0 /\ yielded = NoSource
    /\ (StreamCalled /\ ~http.ok) =>
            /\ pc = "threw"
            /\ IsHttpError
            /\ error # NoBody
    /\ error = NoBody => (StreamCalled /\ http.ok /\ Nullish(http.body))

\* a 2xx response without a body made generateContentStream throw
C12_Witness ==
    /\ StreamCalled
    /\ http.ok
    /\ http.body = Null
    /\ pc = "threw"
    /\ error = NoBody

\* the call is over (or its generator runs) and fetch() did not give a 2xx response
FetchUnsuccessful == pc # "idle" /\ (http = Undefined \/ ~http.ok)

(* C13: each call of generateContent or generateContentStream issues exactly *)
(* one POST, carrying the payload built for the call, whether the response   *)
(* is 2xx, is not 2xx or fetch rejects; nothing is sent before the call or   *)
(* after it, and a failure is thrown to the caller, with no second request.  *)
C13_OnePostPerCall ==
    /\ pc = "idle" => posts = <<>>
    /\ pc # "idle" => Len(posts) = 1 /\ posts[1].body = payload
    /\ FetchUnsuccessful =>
            /\ pc = "threw"
            /\ result = NoResult
            /\ error = IF http = Undefined THEN FetchFailed
                       ELSE RequestFailed(http.status, ReadableText, http.statusText)

\* fetch rejected: one POST was issued and the rejection reached the caller
C13_Witness ==
    /\ pc = "threw"
    /\ http = Undefined
    /\ error = FetchFailed
    /\ Len(posts) = 1

----------------------------------------------------------------------------
(* The stream generator and its reader *)

\* the generator, or the call that would have made it, is over
Terminated == pc \in {"done", "closed", "threw"}

\* in every terminated state the reader is not held
ReaderFreeWhenTerminated == Terminated => ~locked

\* the step in which the consumer throws into the generator suspended at a yield
ConsumerThrew == AtYield /\ out' = Pending /\ at' # at

\* the step in which the consumer ends the generator suspended at a yield
ConsumerReturned == AtYield /\ out' # Pending /\ pc' \notin {"streaming", "flushed"}

(* C14: once the generator has acquired the body reader, the reader lock is  *)
(* released on every exit path: the normal end of the stream, a read that    *)
(* rejects, an exception raised while processing a record, and the early     *)
(* termination by the consumer, by return() or by throw() into the           *)
(* generator, each of which ends the generator; in every terminated state of *)
(* the generator the reader is not held.                                     *)
C14_ReaderReleasedOnEveryExit ==
    [][/\ Terminated' => ~locked'
       /\ ConsumerReturned => (Terminated' /\ ~locked')
       /\ ConsumerThrew => (Terminated' /\ ~locked')]_vars

\* the step in which a reader.read() of the generator settles: with bytes, with
\* the end of the data, or with a rejection
ByteRead ==
    \/ nread' # nread /\ buffered' >= buffered
    \/ pc = "streaming" /\ pc' = "flushed"
    \/ error # ReadFailed /\ error' = ReadFailed

\* the step changes what the generator has decoded or aggregated
GeneratorWorked ==
    \/ nread' # nread
    \/ buffered' # buffered
    \/ pendingToolCalls' # pendingToolCalls

(* C16: the streaming path is pull-driven.  A byte read of the generator     *)
(* settles only while a next() of the consumer is unresolved and nothing is  *)
(* left to yield or to process of the records received so far (no response   *)
(* waiting, no record in hand, no complete record in the buffer); the        *)
(* generator decodes and aggregates only while a next() is unresolved.  The   *)
(* byte read is the one event from outside the generator waits for: its      *)
(* other steps (going on in the record, cutting the next record, yielding,   *)
(* returning) wait for nothing.                                              *)
C16_PullDriven ==
    [][/\ ByteRead =>
            /\ out = Pending
            /\ responses = <<>>
            /\ chunk = <<>>
            /\ buffered = 0
       /\ GeneratorWorked => out = Pending]_vars

\* a read delivered two records after the fragment of the first record was
\* yielded: the second waits in the buffer while the fragment of the first of
\* the two is to be yielded
C16_Witness ==
    /\ nread = 2
    /\ yielded.rec = 1
    /\ buffered = 1
    /\ out = Pending
    /\ responses # <<>>
    /\ responses[1].src.rec = 2

----------------------------------------------------------------------------
(* Two streams *)

RECURSIVE AloneFrom(_, _, _)
\* the fragments of a stream consumed alone, from its k-th record on
AloneNext(given, records, k) == given.values \o AloneFrom(records, k + 1, given.pending)
AloneFrom(records, k, pending) ==
    IF k > Len(records) THEN <<>>
    ELSE AloneNext(Drain(records[k], 1, 1, pending), records, k)

IsPrefix(a, b) == Len(a) <= Len(b) /\ SubSeq(b, 1, Len(a)) = a

\* what the stream has yielded is what it yields alone, as far as it has come
AsAlone(stream, alone) ==
    /\ IsPrefix(stream.yielded, alone)
    /\ (stream.responses = <<>> /\ stream.chunk = <<>>) => stream.yielded = alone

(* C15: two streams started from the same GlmContentGenerator and consumed   *)
(* in any interleaving each yield exactly the fragments they yield when      *)
(* consumed alone (the records of the stream processed one after the other,  *)
(* starting with no pending tool call): the pending tool calls of one stream *)
(* never appear in, or alter, the fragments of the other.                    *)
C15_StreamsIndependent ==
    \A i \in StreamIds : AsAlone(streams[i], AloneFrom(streams[i].records, 1, <<>>))

\* while a tool call of the first stream is pending, the second stream has met
\* a stop and yielded its finish fragment, with no function call in it
C15_Witness ==
    /\ streams[1].pendingToolCalls # <<>>
    /\ streams[1].yielded = <<>>
    /\ streams[2].records = <<<<ChunkLine(StopChunk)>>>>
    /\ Len(streams[2].yielded) = 1
    /\ streams[2].yielded[1].functionCalls = Undefined
    /\ streams[2].yielded[1].candidates[1].finishReason = Str("STOP")

----------------------------------------------------------------------------
(* The message normalizer *)

\* toPayload has translated a request that is one turn, with no system
\* instruction: payload.messages are the messages of the turn
OneTurnTranslated ==
    /\ payload # Undefined
    /\ request.config = Undefined
    /\ request.contents.t = "array"
    /\ Len(request.contents.a) = 1
    /\ "role" \in DOMAIN request.contents.a[1]

Turn == request.contents.a[1]
TurnParts == IF Nullish(Turn.parts) THEN <<>> ELSE Turn.parts.a
ModelTurn == Turn.role = Str("model")

\* the variants of a part
IsThought(part) == part.thought = Bool(TRUE)
IsText(part) == part.thought = Undefined /\ part.text # Undefined
IsFunctionCall(part) == part.functionCall # Undefined
IsFunctionResult(part) == part.functionResponse # Undefined
IsAttachment(part) == part.inlineData # Undefined \/ part.fileData # Undefined
NonEmpty(part) == part.text.cs # <<>>
IsTextWithValue(part) == IsText(part) /\ NonEmpty(part)
IsThoughtWithValue(part) == IsThought(part) /\ NonEmpty(part)
PartChars(part) == part.text.cs

\* the values of the Text parts and of the Thought parts of the turn, in order
TextValues == Map(SelectSeq(TurnParts, IsTextWithValue), PartChars)
ThoughtValues == Map(SelectSeq(TurnParts, IsThoughtWithValue), PartChars)

IsToolMessage(message) == message.role = "tool"
IsTurnMessage(message) == message.role # "tool"
ToolMessages == SelectSeq(payload.messages, IsToolMessage)
TurnMessage == SelectSeq(payload.messages, IsTurnMessage)

\* the texts and the thoughts of the turn are in its one message
Preserved ==
    (TextValues # <<>> \/ ThoughtValues # <<>>) =>
        /\ Len(TurnMessage) = 1
        /\ TextValues # <<>> => TurnMessage[1].content = Text(Join(TextValues, <<NL>>))
        /\ ThoughtValues # <<>> =>
                TurnMessage[1].reasoning_content = Text(Join(ThoughtValues, <<>>))

NoAttachment == \A k \in 1..Len(TurnParts) : ~IsAttachment(TurnParts[k])

(* C17: for every canonical request, the literal text of every Text part and *)
(* of every Thought part appears exactly once in the normalized vendor       *)
(* messages, in the original order: the Text parts of a turn (that has no    *)
(* attachment) joined with a single newline are the content of the one       *)
(* message of the turn, and its Thought parts joined without delimiter are   *)
(* the reasoning_content of that message.                                    *)
C17_TextAndThoughtPreserved == (OneTurnTranslated /\ NoAttachment) => Preserved

\* the same for the turns of the model only
PreservedInModelTurns == (OneTurnTranslated /\ NoAttachment /\ ModelTurn) => Preserved

\* the same for the Text parts only
TextPreserved ==
    (OneTurnTranslated /\ NoAttachment /\ TextValues # <<>>) =>
        /\ Len(TurnMessage) = 1
        /\ TurnMessage[1].content = Text(Join(TextValues, <<NL>>))

\* the JSON encoding of the response of a function result; String(value) for a
\* value that has no JSON encoding, {} for no response
EncodedResponse(response) ==
    IF response = Circular THEN Text(ObjectObject)
    ELSE IF Nullish(response) THEN Text(<<"{", "}">>)
    ELSE Text(JsonStringify(response))

\* the tool message C18 describes for a FunctionResult part
ToolMessageOf(part) ==
    [role |-> "tool",
     name |-> part.functionResponse.name,
     tool_call_id |-> IF part.functionResponse.id # Undefined THEN part.functionResponse.id
                      ELSE IF part.functionResponse.name # Undefined
                      THEN part.functionResponse.name
                      ELSE Str("tool"),
     content |-> EncodedResponse(part.functionResponse.response),
     reasoning_content |-> Undefined,
     tool_calls |-> Undefined]

(* C18: every FunctionResult part in a user-role turn yields exactly one     *)
(* standalone vendor message with role tool, the name of the result,         *)
(* tool_call_id equal to id ?? name ?? "tool" and content equal to the JSON  *)
(* encoding of the response; these messages are emitted in the order of the  *)
(* parts, and apart from the message of the turn's text nothing else is      *)
(* emitted, whether or not the turn has text.                                *)
C18_ToolMessages ==
    (OneTurnTranslated /\ ~ModelTurn) =>
        /\ ToolMessages = Map(SelectSeq(TurnParts, IsFunctionResult), ToolMessageOf)
        /\ Len(TurnMessage) <= 1
        /\ Len(payload.messages) = Len(ToolMessages) + Len(TurnMessage)

\* a turn of the user with a function result and a text: the tool message, with
\* the id of the result, and the user message
C18_Witness ==
    /\ OneTurnTranslated
    /\ Turn = Content(Str("user"),
                      Arr(<<TextOf(Hi),
                            ResultOf(FunctionResponse(CallIds[1], CallNames[1],
                                                      JsonValue(ArgX1)))>>))
    /\ Len(payload.messages) = 2
    /\ payload.messages[1].role = "tool"
    /\ payload.messages[1].tool_call_id = CallIds[1]
    /\ payload.messages[1].content = Text(ArgX1)
    /\ payload.messages[2].role = "user"

\* what the turn has
HasText ==
    \E k \in 1..Len(TurnParts) : IsTextWithValue(TurnParts[k]) \/ IsAttachment(TurnParts[k])
HasToolCalls == \E k \in 1..Len(TurnParts) : IsFunctionCall(TurnParts[k])
HasReasoning == \E k \in 1..Len(TurnParts) : IsThoughtWithValue(TurnParts[k])

(* C19: a model-role turn produces an assistant message if and only if it    *)
(* has text, tool calls or reasoning, and any other turn produces a user     *)
(* message if and only if it has text (a Text part that is not empty, or the *)
(* placeholder of an attachment); each turn produces at most one such        *)
(* message, in addition to its tool-result messages.                         *)
C19_TurnMessageIffContent ==
    OneTurnTranslated =>
        /\ Len(TurnMessage) <= 1
        /\ IF ModelTurn
           THEN /\ Len(TurnMessage) = 1 <=> (HasText \/ HasToolCalls \/ HasReasoning)
                /\ Len(TurnMessage) = 1 => TurnMessage[1].role = "assistant"
           ELSE /\ Len(TurnMessage) = 1 <=> HasText
                /\ Len(TurnMessage) = 1 => TurnMessage[1].role = "user"

\* a turn of the model with reasoning only: an assistant message with empty
\* content
C19_Witness ==
    /\ OneTurnTranslated
    /\ ModelTurn
    /\ HasReasoning /\ ~HasText /\ ~HasToolCalls
    /\ Len(payload.messages) = 1
    /\ payload.messages[1].role = "assistant"
    /\ payload.messages[1].content = Text(<<>>)
    /\ payload.messages[1].reasoning_content = Text(Thinking)

----------------------------------------------------------------------------
(* The tool choice *)

\* request.config?.toolConfig?.functionCallingConfig
RequestFunctionCalling ==
    IF request.config = Undefined THEN Undefined
    ELSE IF request.config.toolConfig = Undefined THEN Undefined
    ELSE request.config.toolConfig.functionCallingConfig
RequestMode ==
    IF RequestFunctionCalling = Undefined THEN Undefined ELSE RequestFunctionCalling.mode
\* the allowed function names, none if there is no list
RequestAllowed ==
    IF RequestFunctionCalling = Undefined THEN <<>>
    ELSE IF RequestFunctionCalling.allowedFunctionNames = Undefined THEN <<>>
    ELSE RequestFunctionCalling.allowedFunctionNames.a

(* C20: the tool-choice mapping.  Mode AUTO or absent produces no            *)
(* tool_choice field; NONE produces the literal "none"; ANY or VALIDATED     *)
(* with exactly one allowed function name produces a forced choice object    *)
(* naming that function; ANY or VALIDATED with zero or several allowed names *)
(* produces the literal "required".                                          *)
C20_ToolChoice ==
    payload # Undefined =>
        /\ RequestMode \in {Undefined, AUTO} => payload.tool_choice = Undefined
        /\ RequestMode = NONE => payload.tool_choice = Str("none")
        /\ (RequestMode \in {ANY, VALIDATED} /\ Len(RequestAllowed) = 1) =>
                payload.tool_choice
                = [t |-> "object", type |-> "function",
                   function |-> [name |-> RequestAllowed[1]]]
        /\ (RequestMode \in {ANY, VALIDATED} /\ Len(RequestAllowed) # 1) =>
                payload.tool_choice = Str("required")

\* VALIDATED with one allowed name: the payload forces that function
C20_Witness ==
    /\ payload # Undefined
    /\ RequestMode = VALIDATED
    /\ RequestAllowed = <<CallNames[1]>>
    /\ payload.tool_choice # Undefined
    /\ payload.tool_choice # Str("required")
    /\ payload.tool_choice.function.name = CallNames[1]

----------------------------------------------------------------------------
(* The reasoning directive *)

\* the clear-thinking flag the generator was configured with, false when none was
ConfiguredFlag ==
    IF options.clearThinking \in {Bool(TRUE), Bool(FALSE)} THEN options.clearThinking
    ELSE Bool(FALSE)

----------------------------------------------------------------------------
(* The web search *)

\* the search was executed through Z.ai and the response arrived with its data
ZaiAnswered ==
    /\ searched # Undefined
    /\ IsGlmAuth(cliConfig)
    /\ http # Undefined
    /\ http.ok
    /\ http.json # Rejects

\* the hits of the response, in vendor order
HitsOf(data) == IF Nullish(data.web_search) THEN <<>> ELSE data.web_search.a

\* the response has no synthesized text: no first choice, no message, no content,
\* or a content that is empty or blank
NoSynthesizedText(data) == Trim(NormalizeZaiContent(ZaiContent(data))) = <<>>

TitleOf(hit) == IF Truthy(hit.title) THEN hit.title.cs ELSE <<"Untitled">>
LinkOf(hit) == IF Truthy(hit.link) THEN hit.link.cs ELSE <<"No URI">>
Numbered(n) == <<"[", DigitChars[n + 1], "] ">>

RECURSIVE Rendering(_)
\* the hits numbered from 1, each as its title, its link and its snippet on lines
\* of their own, a blank line between two hits
Rendering(hits) ==
    LET n == Len(hits)
        hit == hits[n]
        one == Numbered(n) \o TitleOf(hit) \o <<NL>> \o LinkOf(hit)
                   \o (IF Truthy(hit.content) THEN <<NL>> \o hit.content.cs ELSE <<>>)
    IN  IF n = 1 THEN one ELSE Rendering(SubSeq(hits, 1, n - 1)) \o <<NL, NL>> \o one

RECURSIVE SourceList(_)
\* the source list: a line "[n] title (link)" for each hit
SourceList(hits) ==
    LET n == Len(hits)
        hit == hits[n]
        one == Numbered(n) \o TitleOf(hit) \o <<" (">> \o LinkOf(hit) \o <<")">>
    IN  IF n = 1 THEN one ELSE SourceList(SubSeq(hits, 1, n - 1)) \o <<NL>> \o one

(* C24: when the response of the vendor's web search has no synthesized text *)
(* but at least one search hit, the tool returns a result that is not an     *)
(* error and whose text is the fallback rendering of the hits (numbered      *)
(* title, link and snippet, in vendor order) followed by the source list;    *)
(* the text is determined by the hits (and the query).                       *)
C24_FallbackRendering ==
    (ZaiAnswered /\ NoSynthesizedText(http.json) /\ HitsOf(http.json) # <<>>) =>
        /\ searched.error = Undefined
        /\ searched.llmContent =
                Text(<<"Web search results for \"">> \o Params.query.cs \o <<"\":", NL, NL>>
                     \o Rendering(HitsOf(http.json))
                     \o <<NL, NL, "Sources:", NL>> \o SourceList(HitsOf(http.json)))
        /\ Len(searched.sources.a) = Len(HitsOf(http.json))

\* a blank answer with two hits, the first with a snippet, the second without title
C24_Witness ==
    /\ ZaiAnswered
    /\ ZaiContent(http.json) = Text(<<" ">>)
    /\ Len(HitsOf(http.json)) = 2
    /\ Truthy(HitsOf(http.json)[1].content)
    /\ ~Truthy(HitsOf(http.json)[2].title)
    /\ searched.error = Undefined

\* the active auth type, none when no content generator is configured
ActiveAuthType ==
    IF cliConfig.contentGeneratorConfig = Undefined THEN Undefined
    ELSE cliConfig.contentGeneratorConfig.authType

\* an API key is configured for the active auth
KeyConfigured ==
    /\ cliConfig.contentGeneratorConfig # Undefined
    /\ cliConfig.contentGeneratorConfig.apiKey \notin {Undefined, Text(<<>>)}

\* a request of the search tool to Z.ai: a POST that carries the web_search tool
IsZaiSearchPost(post) ==
    /\ post.endpoint = GetZaiEndpoint(cliConfig, env)
    /\ "tools" \in DOMAIN post.body
    /\ post.body.tools[1].type = "web_search"
    /\ post.body.messages = <<[role |-> "user", content |-> Params.query]>>

(* C23, as the claim states it: the routing of the web search is exclusive;  *)
(* when the active auth type is USE_GLM, executing the search tool sends one *)
(* request to the Z.ai endpoint and never calls the Gemini client, and for   *)
(* any other auth type it calls the Gemini client and never the Z.ai         *)
(* endpoint.                                                                 *)
C23_OneRequestUnderGlm ==
    searched # Undefined =>
        IF ActiveAuthType = USE_GLM
        THEN Len(posts) = 1 /\ geminiCalls = <<>>
        ELSE Len(geminiCalls) = 1 /\ posts = <<>>

(* C23, as the code has it: under USE_GLM the search tool never calls the    *)
(* Gemini client and sends at most one request to the Z.ai endpoint: exactly *)
(* one, carrying the web_search tool and the query alone, when an API key is *)
(* configured, and none when no key is configured, the tool then returning   *)
(* an error result; under any other auth type, or none, it calls the Gemini  *)
(* client exactly once and sends nothing to the Z.ai endpoint.  Nothing is   *)
(* sent or called before the tool is executed.                               *)
C23_ExclusiveRouting ==
    /\ searched = Undefined => (posts = <<>> /\ geminiCalls = <<>>)
    /\ (searched # Undefined /\ ActiveAuthType = USE_GLM) =>
            /\ geminiCalls = <<>>
            /\ KeyConfigured => (Len(posts) = 1 /\ IsZaiSearchPost(posts[1]))
            /\ ~KeyConfigured => (posts = <<>> /\ searched.error # Undefined)
    /\ (searched # Undefined /\ ActiveAuthType # USE_GLM) =>
            /\ posts = <<>>
            /\ geminiCalls = <<GeminiCall(Params)>>

\* a search under GLM auth that was sent to Z.ai and returned without an error
C23_Witness ==
    /\ searched # Undefined
    /\ ActiveAuthType = USE_GLM
    /\ Len(posts) = 1
    /\ searched.error = Undefined

----------------------------------------------------------------------------
(* The configuration *)

\* model.zai.disableThinking (--zai-disable-thinking) is set
DisableThinkingSet == cliConfig.glmDisableThinking = Bool(TRUE)

(* C22: thinking mode is requested by default and is turned off by the       *)
(* disableThinking setting: when model.zai.disableThinking is set, every     *)
(* request sent to Z.ai (chat completion and web search) carries a thinking  *)
(* directive that is not of type "enabled"; when it is not set, the          *)
(* directive is of type "enabled".                                           *)
C22_ThinkingFollowsSetting ==
    \A i \in 1..Len(posts) :
        /\ "thinking" \in DOMAIN posts[i].body
        /\ posts[i].body.thinking.type = "enabled" <=> ~DisableThinkingSet

\* what holds of the code: the web search follows the setting
C22_SearchFollowsSetting ==
    \A i \in 1..Len(posts) :
        posts[i].body.messages = <<[role |-> "user", content |-> Params.query]>>
            => (posts[i].body.thinking.type = "enabled" <=> ~DisableThinkingSet)

\* the endpoint the configuration and the environment select: the override when
\* set, otherwise an environment variable that is set, otherwise the default
IsSet(v) == v \notin {Undefined, Text(<<>>)}
SelectedEndpoints ==
    IF IsSet(cliConfig.glmEndpoint) THEN {cliConfig.glmEndpoint}
    ELSE IF IsSet(env.GLM_API_BASE_URL) \/ IsSet(env.ZAI_API_BASE_URL)
    THEN {v \in {env.GLM_API_BASE_URL, env.ZAI_API_BASE_URL} : IsSet(v)}
    ELSE {Text(<<"https://api.z.ai/api/coding/paas/v4/chat/completions">>)}

(* C25: the vendor endpoint a request is sent to is chosen by precedence:    *)
(* the explicit override (model.zai.endpoint, the endpoint option) when set, *)
(* otherwise the environment variable (ZAI_API_BASE_URL or GLM_API_BASE_URL) *)
(* when set, otherwise the built-in default                                  *)
(* https://api.z.ai/api/coding/paas/v4/chat/completions; for the chat calls  *)
(* and for the web search.                                                   *)
C25_EndpointPrecedence ==
    \A i \in 1..Len(posts) : posts[i].endpoint \in SelectedEndpoints

\* a chat call and a web search were sent with no override and ZAI_API_BASE_URL set
C25_Witness ==
    /\ Len(posts) = 2
    /\ ~IsSet(cliConfig.glmEndpoint)
    /\ IsSet(env.ZAI_API_BASE_URL)
    /\ ~IsSet(env.GLM_API_BASE_URL)
    /\ posts[1].endpoint = ZaiApiBaseUrl
    /\ posts[2].endpoint = ZaiApiBaseUrl

----------------------------------------------------------------------------
(* The API keys *)

Called(op) == keyCall # Undefined /\ keyCall.op = op

\* the auth type of the latest call, Gemini when none was given
CalledFor == IF keyCall.authType = Undefined THEN USE_GEMINI ELSE keyCall.authType

\* the entry of an auth type, as API_KEY_ENTRIES lists it
EntryOf(authType) == authType.s

\* the key is null, undefined, empty or whitespace only
BlankKey(apiKey) == apiKey \in {Undefined, Null, Text(<<>>), Text(<<" ">>)}

\* the entries the call is to delete
ToDelete ==
    IF CalledFor = USE_GEMINI THEN {EntryOf(USE_GEMINI), LEGACY_DEFAULT_ENTRY}
    ELSE {EntryOf(CalledFor)}

\* a deletion of the call failed
DeletionFailed == keyCall.failed \in 1..Cardinality(ToDelete)

TokenOf(store, entry) ==
    IF store[entry] = Undefined \/ store[entry].token = Undefined THEN Undefined
    ELSE store[entry].token.accessToken

(* C27: loadApiKey returns the access token stored under the auth type's own *)
(* entry when that entry has one; only for Gemini auth, and only when that   *)
(* entry has no token, it returns the token of the legacy default entry; in  *)
(* every other case it returns null, and it returns null rather than         *)
(* throwing when the access to the storage fails.  It changes nothing.       *)
C27_LoadApiKey ==
    Called("loadApiKey") =>
        /\ keyCall.outcome = "resolved"
        /\ storage = keyCall.before
        /\ keyCall.value =
            IF keyCall.failed = 1 THEN Null
            ELSE IF TokenOf(storage, EntryOf(CalledFor)) # Undefined
            THEN TokenOf(storage, EntryOf(CalledFor))
            ELSE IF CalledFor = USE_GEMINI /\ keyCall.failed # 2
                    /\ TokenOf(storage, LEGACY_DEFAULT_ENTRY) # Undefined
            THEN TokenOf(storage, LEGACY_DEFAULT_ENTRY)
            ELSE Null

\* the key of GLM auth was loaded while a legacy entry exists and GLM has no key
C27_Witness ==
    /\ Called("loadApiKey")
    /\ CalledFor = USE_GLM
    /\ keyCall.failed = 0
    /\ storage[EntryOf(USE_GLM)] = Undefined
    /\ storage[LEGACY_DEFAULT_ENTRY] # Undefined
    /\ keyCall.value = Null

(* C28: API keys of different auth types use distinct storage entries: a     *)
(* call of saveApiKey, clearApiKey or loadApiKey for GLM auth leaves the     *)
(* stored Gemini key (primary and legacy entries) as it was, and a call for  *)
(* Gemini auth leaves the stored GLM key as it was; so does any sequence of  *)
(* such calls.                                                               *)
C28_DistinctEntries ==
    /\ Cardinality({EntryOf(USE_GLM), EntryOf(USE_GEMINI), LEGACY_DEFAULT_ENTRY}) = 3
    /\ (keyCall # Undefined /\ CalledFor = USE_GLM) =>
            /\ storage[EntryOf(USE_GEMINI)] = keyCall.before[EntryOf(USE_GEMINI)]
            /\ storage[LEGACY_DEFAULT_ENTRY] = keyCall.before[LEGACY_DEFAULT_ENTRY]
    /\ (keyCall # Undefined /\ CalledFor = USE_GEMINI) =>
            storage[EntryOf(USE_GLM)] = keyCall.before[EntryOf(USE_GLM)]

\* a key was saved for GLM auth while a Gemini key and a legacy entry are stored
C28_Witness ==
    /\ Called("saveApiKey")
    /\ CalledFor = USE_GLM
    /\ keyCall.apiKey = Text(<<"k">>)
    /\ TokenOf(storage, EntryOf(USE_GLM)) = Text(<<"k">>)
    /\ TokenOf(storage, EntryOf(USE_GEMINI)) = Text(<<"l">>)
    /\ storage[LEGACY_DEFAULT_ENTRY] # Undefined

----------------------------------------------------------------------------
(* The authentication hook *)

\* the effect runs with no auth type selected in the settings and ZAI_API_KEY set
NothingSelectedWithZaiKey ==
    /\ authState = "Unauthenticated"
    /\ ~Truthy(settings.selectedType)
    /\ Truthy(env.ZAI_API_KEY)

\* the step selected GLM auth and set it as the selected type of the user scope
SelectedAndPersistedGlm ==
    /\ settings'.selectedType = USE_GLM
    /\ settings'.userSelectedType = USE_GLM

\* the step called config.refreshAuth with GLM auth
RefreshedWithGlm == refreshed' = Append(refreshed, USE_GLM)

\* the settings enforce an auth type other than GLM auth
EnforcesAnother == Truthy(settings.enforcedType) /\ settings.enforcedType # USE_GLM

\* GEMINI_DEFAULT_AUTH_TYPE holds a value that is no auth type
InvalidDefault ==
    /\ Truthy(env.GEMINI_DEFAULT_AUTH_TYPE)
    /\ env.GEMINI_DEFAULT_AUTH_TYPE.cs \notin {<<a.s>> : a \in AuthType}

\* C29 as it is written: with the auth state Unauthenticated, no auth type selected in
\* the settings and ZAI_API_KEY set, the auth flow selects GLM auth, persists it as the
\* selected auth type in the user settings and authenticates with it, and does not
\* report 'No authentication method selected'.
C29_AutoSelectAuthenticates ==
    [][NothingSelectedWithZaiKey =>
           /\ SelectedAndPersistedGlm
           /\ RefreshedWithGlm
           /\ authError' # NoMethodSelected]_vars

\* C29: with the auth state Unauthenticated, no auth type selected in the settings and
\* ZAI_API_KEY set, the auth flow selects GLM auth and persists it as the selected auth
\* type in the user settings, reports neither 'No authentication method selected' nor
\* awaits a key, and authenticates with GLM auth unless the settings enforce another
\* auth type or GEMINI_DEFAULT_AUTH_TYPE is invalid: then it reports that error and
\* does not authenticate.  Authenticating ends in Authenticated with no error, or in
\* the report of the failed login.
C29_AutoSelectGlm ==
    [][NothingSelectedWithZaiKey =>
           /\ SelectedAndPersistedGlm
           /\ authError' # NoMethodSelected
           /\ authState' # "AwaitingApiKeyInput"
           /\ apiKeyDefaultValue' = env.ZAI_API_KEY
           /\ apiKeyAuthType' = USE_GLM
           /\ IF EnforcesAnother
              THEN /\ authError' = EnforcedMessage(settings.enforcedType, USE_GLM)
                   /\ authState' = "Updating"
                   /\ refreshed' = refreshed
              ELSE IF InvalidDefault
              THEN /\ authError' = InvalidDefaultAuthType(env.GEMINI_DEFAULT_AUTH_TYPE)
                   /\ authState' = "Updating"
                   /\ refreshed' = refreshed
              ELSE /\ RefreshedWithGlm
                   /\ \/ authState' = "Authenticated" /\ authError' = Null
                      \/ /\ authState' = "Updating"
                         /\ \E rejected \in Rejections \ {Undefined} :
                                authError' = FailedToLogin(rejected)]_vars

\* GLM auth was selected by the flow itself and the CLI is authenticated with it
C29_Witness ==
    /\ authState = "Authenticated"
    /\ settings.selectedType = USE_GLM
    /\ settings.userSelectedType = USE_GLM
    /\ Truthy(env.ZAI_API_KEY)
    /\ refreshed = <<USE_GLM>>
    /\ authError = Null

----------------------------------------------------------------------------
(* The completion of the pending tool calls *)

RECURSIVE PassedAccumulated(_, _, _, _, _)
\* the map after the tool-call deltas of the choices of the record from the c-th
\* choice of the l-th line up to the choice at `to`
PassedAccumulated(record, l, c, to, pending) ==
    IF l > to.line THEN pending
    ELSE IF record[l].t # "chunk"
            \/ c > (IF l = to.line THEN to.choice
                    ELSE Len(Coalesce(record[l].json.choices, Arr(<<>>)).a))
    THEN PassedAccumulated(record, l + 1, 1, to, pending)
    ELSE PassedAccumulated(record, l, c + 1, to,
                           ChoiceAccumulated(record[l].json.choices.a[c], pending))

\* where the step takes the generator up: at the start of a new record, or where
\* it was suspended
TakenUpAt == IF nread' # nread THEN Start ELSE at

\* the pending entries when the choice that responds in this step has taken its
\* tool-call deltas
PendingAtFinish ==
    PassedAccumulated(chunk', TakenUpAt.line, TakenUpAt.choice, responses'[1].src,
                      pendingToolCalls)

\* the mapped finish reason of the choice that responds in this step
MappedFinishReason ==
    ConvertFinishReason(
        chunk'[responses'[1].src.line].json.choices.a[responses'[1].src.choice].finish_reason)

\* the tool-call-completion fragments among the responses of this step
Completions == {i \in 1..Len(responses') : IsCompletion(responses'[i].value)}

\* no pending entry is removed in this step
PendingKept ==
    \A k \in 1..Len(pendingToolCalls) :
        MapHas(pendingToolCalls', pendingToolCalls[k].id)

\* C30: when a chunk choice's mapped finish reason is STOP or MAX_TOKENS and at least
\* one tool call is pending, the aggregator emits exactly one tool-call-completion
\* fragment whose only parts are one function call per pending entry, tagged with
\* that finish reason, and the pending map is empty afterwards; under any other
\* finish reason, or none, pending entries are neither emitted nor removed.
C30_FlushOnTerminalReason ==
    [][/\ Responds =>
            IF /\ MappedFinishReason \in {Str("STOP"), Str("MAX_TOKENS")}
               /\ PendingAtFinish # <<>>
            THEN /\ Cardinality(Completions) = 1
                 /\ \A i \in Completions :
                     /\ Len(responses'[i].value.candidates) = 1
                     /\ responses'[i].value.candidates[1].content.parts
                            = Map(PendingAtFinish, PendingToPart)
                     /\ responses'[i].value.candidates[1].finishReason
                            = MappedFinishReason
                 /\ pendingToolCalls' = <<>>
            ELSE /\ Completions = {}
                 /\ pendingToolCalls' = PendingAtFinish
                 /\ PendingKept
       /\ ~Responds => PendingKept]_vars

\* two pending tool calls were completed under MAX_TOKENS and none is pending
C30_Witness ==
    /\ YieldedFragment
    /\ IsCompletion(out.value)
    /\ out.value.candidates[1].finishReason = Str("MAX_TOKENS")
    /\ Len(out.value.candidates[1].content.parts) = 2
    /\ pendingToolCalls = <<>>

----------------------------------------------------------------------------
(* The aggregator on one chunk *)

\* the choices of the chunk consumed
ConsumedChoices == Coalesce(consumed.chunk.choices, Arr(<<>>)).a

\* the chunk consumed has one choice, and the choice one tool-call delta
OneDelta ==
    /\ consumed # Undefined
    /\ Len(ConsumedChoices) = 1
    /\ ~Nullish(ConsumedChoices[1].delta)
    /\ ~Nullish(ConsumedChoices[1].delta.tool_calls)
    /\ Len(ConsumedChoices[1].delta.tool_calls.a) = 1

TheDelta == ConsumedChoices[1].delta.tool_calls.a[1]

\* what the delta supplies
DeltaName == IF Nullish(TheDelta.function) THEN Undefined ELSE TheDelta.function.name
DeltaFragment ==
    IF Nullish(TheDelta.function) \/ Nullish(TheDelta.function.arguments) THEN <<>>
    ELSE TheDelta.function.arguments.cs

\* id ?? function.name ?? "tool"
TrackingKey ==
    IF ~Nullish(TheDelta.id) THEN TheDelta.id
    ELSE IF ~Nullish(DeltaName) THEN DeltaName
    ELSE Str("tool")

\* the position of the key in the map the delta found, 0 if it is new
KeyAt(map, key) ==
    IF \E i \in 1..Len(map) : map[i].id = key
    THEN CHOOSE i \in 1..Len(map) : map[i].id = key
    ELSE 0

\* the map relates to the one the delta found as C31 says
Tracked(before, after) ==
    IF KeyAt(before, TrackingKey) = 0
    THEN /\ Len(after) = Len(before) + 1
         /\ \A i \in 1..Len(before) : after[i] = before[i]
         /\ after[Len(after)].id = TrackingKey
         /\ after[Len(after)].args = DeltaFragment
         /\ after[Len(after)].name = (IF Nullish(DeltaName) THEN Str("tool") ELSE DeltaName)
    ELSE /\ Len(after) = Len(before)
         /\ \A i \in 1..Len(before) :
                IF i = KeyAt(before, TrackingKey)
                THEN /\ after[i].id = TrackingKey
                     /\ after[i].args = before[i].args \o DeltaFragment
                     /\ after[i].name = (IF Nullish(DeltaName) THEN before[i].name
                                         ELSE DeltaName)
                ELSE after[i] = before[i]

\* the entries the function calls of a tool-call-completion fragment come from: the
\* fragment has one function call per entry, with the entry's id and name and its
\* argument string parsed
FlushedFrom(fragment, entries) ==
    /\ Len(fragment.functionCalls.a) = Len(entries)
    /\ \A i \in 1..Len(entries) :
        /\ fragment.functionCalls.a[i].id = entries[i].id
        /\ fragment.functionCalls.a[i].name = entries[i].name
        /\ fragment.functionCalls.a[i].args = ParseArguments(Text(entries[i].args))

\* the tool-call-completion fragments of the chunk consumed
ConsumedCompletions ==
    {i \in 1..Len(consumed.values) : IsCompletion(consumed.values[i].value)}

\* C31: for every tool-call delta the aggregator resolves the tracking key
\* id ?? function.name ?? "tool"; if the key is new it creates the entry, otherwise
\* it appends the delta's argument fragment to that entry's args and overwrites the
\* entry's name only if the delta supplies a name; every pending entry under a
\* different key is left unchanged.  (When the choice also completes the pending
\* calls, the entries are read off the function calls of the completion fragment.)
C31_DeltaTracked ==
    OneDelta =>
        IF ConsumedCompletions = {}
        THEN Tracked(consumed.before, pendingToolCalls)
        ELSE \A i \in ConsumedCompletions :
                \E entries \in {[k \in 1..Len(consumed.values[i].value.functionCalls.a) |->
                                    [id |-> consumed.values[i].value.functionCalls.a[k].id,
                                     name |-> consumed.values[i].value.functionCalls.a[k].name,
                                     args |-> IF k = KeyAt(consumed.before, TrackingKey)
                                              THEN consumed.before[k].args \o DeltaFragment
                                              ELSE IF k > Len(consumed.before)
                                              THEN DeltaFragment
                                              ELSE consumed.before[k].args]]} :
                    /\ Tracked(consumed.before, entries)
                    /\ FlushedFrom(consumed.values[i].value, entries)

\* a delta without id and without name appended its fragment to the entry "tool",
\* whose name it left, next to an entry under another key
C31_Witness ==
    /\ OneDelta
    /\ Nullish(TheDelta.id)
    /\ Nullish(DeltaName)
    /\ DeltaFragment # <<>>
    /\ Len(consumed.before) = 2
    /\ KeyAt(consumed.before, Str("tool")) = 2
    /\ consumed.before[2].args # <<>>
    /\ pendingToolCalls[2].name = CallNames[2]
    /\ pendingToolCalls[2].args = consumed.before[2].args \o DeltaFragment
    /\ pendingToolCalls[1] = consumed.before[1]

\* the fragments the c-th choice of the chunk consumed gave
FragmentsOf(c) == {i \in 1..Len(consumed.values) : consumed.values[i].choice = c}

\* the c-th choice produced no reasoning and no text
NoContent(c) == ChoiceParts(ConsumedChoices[c]) = <<>>

\* the c-th choice did not complete the pending tool calls
NoFlush(c) == FragmentsOf(c) \cap ConsumedCompletions = {}

\* a fragment with an empty parts list that carries the finish reason
FinishOnly(fragment, finishReason) ==
    /\ Len(fragment.candidates) = 1
    /\ fragment.candidates[1].content.parts = <<>>
    /\ fragment.candidates[1].finishReason = finishReason
    /\ fragment.functionCalls = Undefined

\* a fragment with an empty parts list
ContentFree(fragment) ==
    /\ fragment.candidates[1].content.parts = <<>>
    /\ fragment.functionCalls = Undefined

\* C32 as it is written: if a chunk choice produced no reasoning or text, did not
\* trigger a tool-call flush, and its finish_reason is present, the aggregator emits
\* exactly one fragment with an empty parts list carrying that finish reason; if no
\* finish reason is present it emits no such fragment.
C32_FinishSignalAlwaysSeen ==
    consumed # Undefined =>
        \A c \in 1..Len(ConsumedChoices) :
            (NoContent(c) /\ NoFlush(c)) =>
                IF ~Nullish(ConsumedChoices[c].finish_reason)
                THEN /\ Cardinality(FragmentsOf(c)) = 1
                     /\ \A i \in FragmentsOf(c) :
                            FinishOnly(consumed.values[i].value,
                                       ConvertFinishReason(ConsumedChoices[c].finish_reason))
                ELSE FragmentsOf(c) = {}

\* C32: if a chunk choice produced no reasoning or text, did not trigger a tool-call
\* flush, and its finish_reason maps to a finish reason (stop, length, content_filter,
\* tool_calls), the aggregator emits exactly one fragment with an empty parts list
\* carrying the mapped finish reason; if the finish_reason is absent or maps to none
\* it emits no such fragment; and no choice that produced reasoning or text gives a
\* fragment with an empty parts list.
C32_FinishOnlyFragment ==
    consumed # Undefined =>
        \A c \in 1..Len(ConsumedChoices) :
            /\ (NoContent(c) /\ NoFlush(c)) =>
                    IF ConvertFinishReason(ConsumedChoices[c].finish_reason) # Undefined
                    THEN /\ Cardinality(FragmentsOf(c)) = 1
                         /\ \A i \in FragmentsOf(c) :
                                FinishOnly(consumed.values[i].value,
                                           ConvertFinishReason(
                                               ConsumedChoices[c].finish_reason))
                    ELSE FragmentsOf(c) = {}
            /\ ~NoContent(c) =>
                    \A i \in FragmentsOf(c) : ~ContentFree(consumed.values[i].value)

\* a choice with a tool-call delta and the finish reason content_filter gave the
\* fragment that carries SAFETY alone, and the calls stay pending
C32_Witness ==
    /\ OneDelta
    /\ ConsumedChoices[1].finish_reason = Str("content_filter")
    /\ Len(consumed.values) = 1
    /\ FinishOnly(consumed.values[1].value, Str("SAFETY"))
    /\ Len(pendingToolCalls) = 3

\* among the fragments is: the content fragments, and the fragments that complete
\* the tool calls or carry a finish reason alone
ContentAmong(is) ==
    {i \in is : /\ ~IsCompletion(consumed.values[i].value)
                /\ consumed.values[i].value.candidates[1].content.parts # <<>>}
ClosingAmong(is) ==
    {i \in is : \/ IsCompletion(consumed.values[i].value)
                \/ ContentFree(consumed.values[i].value)}

\* at most two fragments: at most one content fragment and at most one of a
\* tool-call-completion fragment or a content-free finish fragment
AtMostTwo(is) ==
    /\ Cardinality(is) <= 2
    /\ Cardinality(ContentAmong(is)) <= 1
    /\ Cardinality(ClosingAmong(is)) <= 1

\* C33 as it is written: processing one vendor chunk emits zero, one or two
\* fragments and never more: at most one content fragment and at most one of a
\* tool-call-completion fragment or a content-free finish fragment.
C33_AtMostTwoPerChunk ==
    consumed # Undefined => AtMostTwo(1..Len(consumed.values))

\* C33: processing one choice of a vendor chunk emits zero, one or two fragments and
\* never more: at most one content fragment and at most one of a
\* tool-call-completion fragment or a content-free finish fragment; a chunk emits
\* the fragments of its choices and no other.
C33_AtMostTwoPerChoice ==
    consumed # Undefined =>
        /\ \A c \in 1..Len(ConsumedChoices) : AtMostTwo(FragmentsOf(c))
        /\ \A i \in 1..Len(consumed.values) :
                consumed.values[i].choice \in 1..Len(ConsumedChoices)

\* a chunk of two choices gave four fragments, two of each choice
C33_Witness ==
    /\ consumed # Undefined
    /\ Len(ConsumedChoices) = 2
    /\ Len(consumed.values) = 4
    /\ Cardinality(FragmentsOf(1)) = 2
    /\ Cardinality(ContentAmong(FragmentsOf(2))) = 1
    /\ Cardinality(ClosingAmong(FragmentsOf(2))) = 1

\* C37: in streaming mode usage accounting is never dropped: for every vendor chunk
\* that carries a usage object, at least one yielded fragment carries that chunk's
\* normalized usage, including chunks whose choices list is empty and chunks whose
\* choice has no content and no finish reason.
C37_UsageNeverDropped ==
    (consumed # Undefined /\ ~Nullish(consumed.chunk.usage)) =>
        \E i \in 1..Len(consumed.values) :
            /\ consumed.values[i].value.usageMetadata # Undefined
            /\ UsageAsClaimed(consumed.chunk.usage, consumed.values[i].value.usageMetadata)

\* every fragment of a chunk carries the chunk's normalized usage
C37_FragmentsCarryUsage ==
    consumed # Undefined =>
        \A i \in 1..Len(consumed.values) :
            UsageAsClaimed(consumed.chunk.usage, consumed.values[i].value.usageMetadata)

----------------------------------------------------------------------------
(* The decoder of the body *)

\* what the decoder holds once the bytes have arrived in one read
InOneRead(decoded, cut) ==
    [undecoded |-> decoded.held, buffer |-> cut.buffer, sseChunks |-> cut.records]
CutDecoded(decoded) == InOneRead(decoded, CutRecords(decoded.text))
WholeBody(bytes) == CutDecoded(DecodeStream(<<>>, bytes))

\* the records handed to processSseChunk match those of the body read at once
SameAsWhole(whole) ==
    /\ undecoded = whole.undecoded
    /\ buffer = whole.buffer
    /\ sseChunks = IF ended THEN RemainderProcessed(whole.sseChunks, whole.buffer)
                   ELSE whole.sseChunks

\* C36: the records handed to processSseChunk, hence the fragments yielded, the
\* rest of the buffer and the byte the decoder holds back are those of the same
\* bytes delivered in one read, however the transport split them into reads
C36_ReadsDoNotMatter == SameAsWhole(WholeBody(BytesOf(received)))

\* three reads that cut a record inside its two-byte character and between the
\* two newlines of its boundary
C36_Witness ==
    /\ received = <<<<LeadByte>>, <<ContinuationByte, NL>>, <<NL>>>>
    /\ sseChunks = <<<<TwoByteCharacter>>>>
    /\ buffer = <<>>
    /\ undecoded = <<>>

\* the JSON document of a line token
TokenChunk(token) == IF token = HiLine THEN HiChunk ELSE StopChunk

RECURSIVE Spelled(_)
\* the characters of a text: "data: [DONE]" is spelled out, and a token of a JSON
\* document is spelled as a data line of an empty object
Spelled(cs) ==
    IF cs = <<>> THEN <<>>
    ELSE (IF Head(cs) = DoneLine THEN DATA \o <<" ">> \o DONE
          ELSE IF Head(cs) \in LineTokens THEN DATA \o <<" ", "{", "}">>
          ELSE <<Head(cs)>>)
         \o Spelled(Tail(cs))

\* a line of a record: the chunk of its token if it holds nothing else than the
\* token of a JSON document and spaces, its characters otherwise
TrimmedLine(trimmed) ==
    IF Len(trimmed) = 1 /\ trimmed[1] \in {HiLine, StopLine}
    THEN ChunkLine(TokenChunk(trimmed[1]))
    ELSE RawLine(Spelled(trimmed))
LineOf(cs) == TrimmedLine(Trim(cs))

\* sseChunk.split('\n')
RECURSIVE SplitLines(_)
SplitAt(cs, at1) ==
    IF at1 = 0 THEN <<cs>>
    ELSE <<SubSeq(cs, 1, at1 - 1)>> \o SplitLines(SubSeq(cs, at1 + 1, Len(cs)))
SplitLines(cs) ==
    SplitAt(cs, IF \E i \in 1..Len(cs) : cs[i] = NL
                THEN CHOOSE i \in 1..Len(cs) :
                        cs[i] = NL /\ \A k \in 1..(i - 1) : cs[k] # NL
                ELSE 0)

LinesOf(split) == [i \in 1..Len(split) |-> LineOf(split[i])]

RECURSIVE RecordsFragments(_, _)
\* the fragments yielded for the records in turn, from the pending tool calls
\* given; an error that leaves a record ends the generator
FragmentsAfter(r, chunks) ==
    IF r.error # NoError THEN r.values
    ELSE r.values \o RecordsFragments(chunks, r.pending)
RecordsFragments(chunks, pending) ==
    IF chunks = <<>> THEN <<>>
    ELSE FragmentsAfter(Drain(LinesOf(SplitLines(Head(chunks))), 1, 1, pending),
                        Tail(chunks))

\* at the end of the data the remainder was processed as the last record if it is
\* not blank, nothing was if it is blank, and the fragments are those of the body
\* followed by a boundary
LastRecord(whole, bounded) ==
    /\ sseChunks = IF NotBlank(whole.buffer) THEN Append(whole.sseChunks, whole.buffer)
                   ELSE whole.sseChunks
    /\ RecordsFragments(sseChunks, <<>>) = RecordsFragments(bounded.sseChunks, <<>>)

\* C35 as stated: at the end of the data the remainder of the buffer is processed
\* as one last record if it is not blank, and yields what it yields when a
\* boundary follows it; a blank remainder yields nothing.
C35_RemainderIsLastRecord ==
    ended => LastRecord(WholeBody(BytesOf(received)),
                        WholeBody(BytesOf(received) \o <<NL, NL>>))

\* C35: at the end of the data of a body that does not end inside a multi-byte
\* character, the remainder of the buffer is processed as one last record if it
\* is not blank, and yields what it yields when a boundary follows it; a blank
\* remainder yields nothing.
C35_WholeRemainderIsLastRecord ==
    (ended /\ undecoded = <<>>)
        => LastRecord(WholeBody(BytesOf(received)),
                      WholeBody(BytesOf(received) \o <<NL, NL>>))

\* the data ended after a record with its boundary and a record without
C35_Witness ==
    /\ ended
    /\ undecoded = <<>>
    /\ BytesOf(received) = <<StopLine, NL, NL, HiLine>>
    /\ buffer = <<HiLine>>
    /\ sseChunks = <<<<StopLine>>, <<HiLine>>>>
    /\ Len(RecordsFragments(sseChunks, <<>>)) = 2

\* a data line whose payload is [DONE]
IsDone(line) ==
    /\ line.t = "text"
    /\ StartsWith(Trim(line.cs), DATA)
    /\ Trim(SubSeq(Trim(line.cs), Len(DATA) + 1, Len(Trim(line.cs)))) = DONE
NotDone(line) == ~IsDone(line)

\* the lines of the records, those of [DONE] left out
WithoutDone(chunks) ==
    [k \in 1..Len(chunks) |-> SelectSeq(LinesOf(SplitLines(chunks[k])), NotDone)]

RECURSIVE AllFragments(_)
\* the fragments of every record of lines, whatever a record throws
AllFragments(records) ==
    IF records = <<>> THEN <<>>
    ELSE Drain(Head(records), 1, 1, <<>>).values \o AllFragments(Tail(records))

\* the records with a [DONE] line among those handed to processSseChunk
DoneRecords ==
    {k \in 1..Len(sseChunks) :
        \E i \in 1..Len(LinesOf(SplitLines(sseChunks[k]))) :
            IsDone(LinesOf(SplitLines(sseChunks[k]))[i])}

\* C34: a data line whose payload is [DONE] produces no fragment and does not end
\* the stream.  The fragments yielded for the records handed to processSseChunk
\* are, record by record, those of the lines that are not [DONE] lines, for the
\* records after a [DONE] line as for those before it; and the generator has
\* ended only if the read reported the end of the data, after which the remainder
\* of the buffer was processed.
C34_DoneIsSkipped ==
    /\ RecordsFragments(sseChunks, <<>>) = AllFragments(WithoutDone(sseChunks))
    /\ sseChunks = IF ended
                   THEN RemainderProcessed(WholeBody(BytesOf(received)).sseChunks, buffer)
                   ELSE WholeBody(BytesOf(received)).sseChunks

\* a [DONE] record, and the record after it yielded its fragment when the data
\* ended
C34_Witness ==
    /\ ended
    /\ BytesOf(received) = <<DoneLine, NL, NL, HiLine>>
    /\ sseChunks = <<<<DoneLine>>, <<HiLine>>>>
    /\ DoneRecords = {1}
    /\ Len(RecordsFragments(sseChunks, <<>>)) = 1

----------------------------------------------------------------------------
(* Function calls and their results in the vendor messages *)

\* the turns of the request
RequestTurns == NormalizeContents(request.contents)
PartsOfTurn(turn) == Coalesce(turn.parts, Arr(<<>>)).a

\* the parts convertContent takes as a function call and as a function result
TakenAsCall(part) ==
    ~Truthy(part.thought) /\ ~Truthy(part.text) /\ Truthy(part.functionCall)
TakenAsResult(part) ==
    ~Truthy(part.thought) /\ ~Truthy(part.text) /\ Truthy(part.functionResponse)

\* a function call in a model turn and a function result in a following user turn
\* with the same id, absent or not, and the same name
AnsweredCalls ==
    {pair \in {<<call, answer>> :
                call \in {[turn |-> i, part |-> p] :
                            i \in 1..Len(RequestTurns), p \in 1..MaxParts},
                answer \in {[turn |-> k, part |-> q] :
                            k \in 1..Len(RequestTurns), q \in 1..MaxParts}} :
        /\ pair[1].turn < pair[2].turn
        /\ VendorRole(RequestTurns[pair[1].turn]) = "assistant"
        /\ VendorRole(RequestTurns[pair[2].turn]) = "user"
        /\ pair[1].part <= Len(PartsOfTurn(RequestTurns[pair[1].turn]))
        /\ pair[2].part <= Len(PartsOfTurn(RequestTurns[pair[2].turn]))
        /\ TakenAsCall(PartsOfTurn(RequestTurns[pair[1].turn])[pair[1].part])
        /\ TakenAsResult(PartsOfTurn(RequestTurns[pair[2].turn])[pair[2].part])}

CallAt(at1) == PartsOfTurn(RequestTurns[at1.turn])[at1.part].functionCall
ResultAt(at1) == PartsOfTurn(RequestTurns[at1.turn])[at1.part].functionResponse
SameCall(functionCall, functionResponse) ==
    functionCall.id = functionResponse.id /\ functionCall.name = functionResponse.name

\* a tool call of an assistant message for the call, and a tool message after it
\* for the result, whose tool_call_id is the id of the tool call
Correlated(messages, functionCall, functionResponse) ==
    \E a \in 1..Len(messages) : \E b \in (a + 1)..Len(messages) :
        /\ messages[a].role = "assistant"
        /\ messages[a].tool_calls # Undefined
        /\ messages[b].role = "tool"
        /\ messages[b].name = functionResponse.name
        /\ \E c \in 1..Len(messages[a].tool_calls.a) :
            /\ messages[a].tool_calls.a[c].function.name = functionCall.name
            /\ messages[a].tool_calls.a[c].id = messages[b].tool_call_id

\* C38: for a FunctionCall part in a model turn and the FunctionResult part that
\* answers it in a following user turn, with the same id, absent or not, and the
\* same name, the payload has an assistant tool call and a later tool message
\* whose id and tool_call_id are equal.
C38_ResultRefersToCall ==
    payload # Undefined =>
        \A pair \in AnsweredCalls :
            SameCall(CallAt(pair[1]), ResultAt(pair[2]))
                => Correlated(payload.messages, CallAt(pair[1]), ResultAt(pair[2]))

\* the same for the calls that have an id
IdentifiedResultRefersToCall ==
    payload # Undefined =>
        \A pair \in AnsweredCalls :
            (SameCall(CallAt(pair[1]), ResultAt(pair[2])) /\ ~Nullish(CallAt(pair[1]).id))
                => Correlated(payload.messages, CallAt(pair[1]), ResultAt(pair[2]))

\* a call with an id and its result were translated
IdentifiedCallAnswered ==
    /\ payload # Undefined
    /\ request.contents = Arr(<<CallTurn, ResultTurn>>)
    /\ AnsweredCalls # {}

----------------------------------------------------------------------------
(* The key of Gemini auth after it was cleared *)

\* the latest call was clearApiKey, or saveApiKey with a key that is empty, for
\* Gemini auth, and it resolved
GeminiKeyCleared ==
    /\ keyCall # Undefined
    /\ CalledFor = USE_GEMINI
    /\ keyCall.outcome = "resolved"
    /\ \/ keyCall.op = "clearApiKey"
       \/ keyCall.op = "saveApiKey" /\ BlankKey(keyCall.apiKey)

\* C39: after clearApiKey(USE_GEMINI), or saveApiKey with an empty key for Gemini
\* auth, has resolved, loadApiKey(USE_GEMINI) returns null: neither the entry of
\* the Gemini key nor the legacy entry holds a key, whether or not a deletion
\* reported an error.
C39_NoKeyAfterClear ==
    GeminiKeyCleared =>
        /\ Loaded(storage, USE_GEMINI, 0) = Null
        /\ ~Truthy(AccessToken(storage[EntryOf(USE_GEMINI)]))
        /\ ~Truthy(AccessToken(storage[LEGACY_DEFAULT_ENTRY]))

\* the same when the deletion of the entry of the Gemini key reported no error
NoKeyAfterFirstDeletion ==
    (GeminiKeyCleared /\ keyCall.failed # 1) =>
        /\ ~Truthy(AccessToken(storage[EntryOf(USE_GEMINI)]))
        /\ keyCall.failed = 0 => Loaded(storage, USE_GEMINI, 0) = Null

====
